---- MODULE Spec2Model ----
(***************************************************************************)
(* HBnB part 2: the facade (hbnb/app/services/facade.py), the entity       *)
(* models, the identity/timestamp base and the in-memory repository.       *)
(*                                                                         *)
(* Python values are records [t, n, s, l]: t is the Python type, n the     *)
(* number (or the number of the UUID a uuid string spells), s the          *)
(* characters of a string, l the elements of a list.  A list element is an *)
(* integer: k >= 1 is the string of the k-th UUID issued, NilUuid the      *)
(* well-formed UUID string that names nothing, BadUuid a string that is no *)
(* UUID, NotAStr a value that is not a string.                             *)
(***************************************************************************)
EXTENDS Integers, Sequences, FiniteSets, TLC

VARIABLES user_repo, place_repo, review_repo, amenity_repo, clock, issued, last, calls

vars == <<user_repo, place_repo, review_repo, amenity_repo, clock, issued, last, calls>>

repos == <<user_repo, place_repo, review_repo, amenity_repo>>

\* ------------------------------------------------------------------ bounds
\* how many entities of each kind are ever constructed (ids are never reused)
MaxUsers == 2
MaxPlaces == 1
MaxReviews == 1
MaxAmenities == 1
\* the last value the clock may reach
MaxClock == 1

\* ------------------------------------------------------------ Python values
NilUuid == 0
BadUuid == -1
NotAStr == -2

PyVal(t, n, s, l) == [t |-> t, n |-> n, s |-> s, l |-> l]
PyStr(s) == PyVal("str", 0, s, <<>>)
PyUuid(k) == PyVal("uuid", k, <<>>, <<>>)
PyInt(n) == PyVal("int", n, <<>>, <<>>)
PyFloat(n) == PyVal("float", n, <<>>, <<>>)
\* float('nan'): a float that is not a number
PyNaN == PyVal("float", 0, <<"n", "a", "n">>, <<>>)
PyBool(b) == PyVal("bool", IF b THEN 1 ELSE 0, <<>>, <<>>)
PyNone == PyVal("none", 0, <<>>, <<>>)
PyList(l) == PyVal("list", 0, <<>>, l)

\* isinstance(v, str): a UUID string is a string
IsStr(v) == v.t \in {"str", "uuid"}
\* isinstance(v, (int, float)) and type(v) is not bool
IsNumber(v) == v.t \in {"int", "float"}
\* isinstance(v, int): bool is a subclass of int
IsInt(v) == v.t \in {"int", "bool"}
IsList(v) == v.t = "list"
IsNaN(v) == v = PyNaN
\* v < k, v <= k and v > k for a number v: each is False when v is nan
NumLt(v, k) == ~IsNaN(v) /\ v.n < k
NumLe(v, k) == ~IsNaN(v) /\ v.n <= k
NumGt(v, k) == ~IsNaN(v) /\ v.n > k
\* float(v)
ToFloat(v) == IF IsNaN(v) THEN v ELSE PyFloat(v.n)
\* str(uuid.uuid4()): 36 characters, hyphens at 9, 14, 19 and 24
HexDigit(n) == <<"0", "1", "2", "3", "4", "5", "6", "7", "8", "9">>[(n % 10) + 1]

UuidChars(k) ==
    [i \in 1..36 |->
        IF i \in {9, 14, 19, 24} THEN "-"
        ELSE IF i = 36 THEN HexDigit(k)
        ELSE IF i = 35 THEN HexDigit(k \div 10)
        ELSE IF i = 34 THEN HexDigit(k \div 100)
        ELSE "0"]
\* the characters of a string value
Chars(v) == IF v.t = "uuid" THEN UuidChars(v.n) ELSE v.s
\* bool(v) for a string: the empty string is falsy
Truthy(v) == v.t = "uuid" \/ (v.t = "str" /\ v.s /= <<>>)

\* ------------------------------------------------------------------ strings
IsSpace(c) == c = " "
IsDigit(c) == c \in {"0", "1", "2", "3", "4", "5", "6", "7", "8", "9"}
IsUpper(c) == c \in {"A", "B", "X"}
LowerChar(c) == CASE c = "A" -> "a" [] c = "B" -> "b" [] c = "X" -> "x" [] OTHER -> c

RECURSIVE LStrip(_)
LStrip(s) == IF s /= <<>> /\ IsSpace(Head(s)) THEN LStrip(Tail(s)) ELSE s

RECURSIVE RStrip(_)
RStrip(s) ==
    IF s /= <<>> /\ IsSpace(s[Len(s)]) THEN RStrip(SubSeq(s, 1, Len(s) - 1)) ELSE s

\* str.strip()
Strip(s) == RStrip(LStrip(s))
\* str.lower()
Lower(s) == [i \in 1..Len(s) |-> LowerChar(s[i])]
\* str.count(c)
Count(s, c) == Cardinality({i \in 1..Len(s) : s[i] = c})
\* c in s
Contains(s, c) == \E i \in 1..Len(s) : s[i] = c

\* ------------------------------------------------------- outcomes of a call
Raise(kind, msg) == [out |-> kind, msg |-> msg]
Ok(val) == [out |-> "ok", msg |-> "", val |-> val]

\* a keyword argument, or its default
Arg(data, k, default) == IF k \in DOMAIN data THEN data[k] ELSE default

\* ---------------------------------------------------------------- BaseModel
ProtectedFields == {"id", "created_at", "updated_at"}

\* BaseModel.__init__: the fields of a subclass, with a new id and two readings
\* of the clock
BaseInit(fields, id, t1, t2) ==
    [k \in DOMAIN fields \cup ProtectedFields |->
        CASE k = "id" -> id
          [] k = "created_at" -> t1
          [] k = "updated_at" -> t2
          [] OTHER -> fields[k]]

\* BaseModel.save
BaseSave(obj, now) == [obj EXCEPT !.updated_at = now]

\* BaseModel.update: setattr for every key that is an attribute and not protected
BaseUpdate(obj, data, now) ==
    BaseSave(
        [k \in DOMAIN obj |->
            IF k \in DOMAIN data /\ k \notin ProtectedFields THEN data[k] ELSE obj[k]],
        now)

\* BaseModel._validate_uuid
ValidateUuid(v) ==
    IF ~IsStr(v) THEN Raise("TypeError", "must be a string")
    ELSE IF v.t /= "uuid" THEN Raise("ValueError", "must be a valid UUID")
    ELSE Ok(v)

\* _validate_uuid on an element of a list of ids
ValidateUuidElem(e) ==
    IF e = NotAStr THEN Raise("TypeError", "must be a string")
    ELSE IF e = BadUuid THEN Raise("ValueError", "must be a valid UUID")
    ELSE Ok(e)

\* ------------------------------------------------------- InMemoryRepository
\* _storage is a dict, which keeps insertion order: a sequence of objects
RepoIds(repo) == {repo[i].id : i \in 1..Len(repo)}

\* obj_id in self._storage; a key is found when it is the string of a stored id
RepoHas(repo, key) == key.t = "uuid" /\ key.n \in RepoIds(repo)

RepoIndex(repo, key) == CHOOSE i \in 1..Len(repo) : repo[i].id = key.n

\* get that returns the first object stored
RepoGetFirst(repo, key) == repo[1]

\* get: the object (call only when RepoHas; absence is RepoHas being false)
RepoGet(repo, key) == repo[RepoIndex(repo, key)]

RepoAddKeepsFirst(repo, obj) ==
    IF obj.id \in RepoIds(repo) THEN repo ELSE Append(repo, obj)

\* add: self._storage[obj.id] = obj
RepoAdd(repo, obj) ==
    IF obj.id \in RepoIds(repo)
    THEN [repo EXCEPT ![RepoIndex(repo, PyUuid(obj.id))] = obj]
    ELSE Append(repo, obj)

\* get_all
RepoGetAll(repo) == repo

\* update that stores a record under a key it does not find
RepoUpdateUpserts(repo, key, data, now) ==
    IF RepoHas(repo, key)
    THEN [repo EXCEPT ![RepoIndex(repo, key)] = BaseUpdate(@, data, now)]
    ELSE Append(repo, [id |-> key.n, created_at |-> now, updated_at |-> now] @@ data)

\* update: obj.update(data) when the object is stored
RepoUpdate(repo, key, data, now) ==
    IF RepoHas(repo, key)
    THEN [repo EXCEPT ![RepoIndex(repo, key)] = BaseUpdate(@, data, now)]
    ELSE repo

RepoDeleteKeeps(repo, key) == repo

\* delete
RepoDelete(repo, key) ==
    IF RepoHas(repo, key)
    THEN LET i == RepoIndex(repo, key)
         IN SubSeq(repo, 1, i - 1) \o SubSeq(repo, i + 1, Len(repo))
    ELSE repo

\* get_by_attribute: the index of the first match, 0 when there is none
RepoGetByAttribute(repo, attr, value) ==
    LET hits == {i \in 1..Len(repo) : repo[i][attr] = value}
    IN IF hits = {} THEN 0 ELSE CHOOSE i \in hits : \A j \in hits : i <= j

\* a dict without some keys: {k: v for k, v in data.items() if k not in forbidden}
Without(data, forbidden) == [k \in DOMAIN data \ forbidden |-> data[k]]

\* a dict with one key set: data[k] = v
With(data, k, v) == [x \in DOMAIN data \cup {k} |-> IF x = k THEN v ELSE data[x]]

\* the outcome of a constructor: based says whether BaseModel.__init__ ran
Built(fields) == [out |-> "ok", msg |-> "", based |-> TRUE, val |-> fields]
Refused(kind, msg, based) == [out |-> kind, msg |-> msg, based |-> based, val |-> [id |-> 0]]

\* --------------------------------------------------------------------- User
UserKwargs == {"first_name", "last_name", "email", "password"}
MaxNameLen == 50
MinPasswordLen == 6

\* User._validate_email
ValidateEmail(email) ==
    LET e == Lower(Strip(email))
    IN IF Count(e, "@") /= 1
       THEN Raise("ValueError", "Email must be valid: it must contain a '@' sign")
       ELSE LET at == CHOOSE i \in 1..Len(e) : e[i] = "@"
                local_part == SubSeq(e, 1, at - 1)
                domain_part == SubSeq(e, at + 1, Len(e))
            IN IF \/ local_part = <<>>
                  \/ domain_part = <<>>
                  \/ ~Contains(domain_part, ".")
                  \/ domain_part[1] = "."
                  \/ domain_part[Len(domain_part)] = "."
               THEN Raise("ValueError", "Email must be valid")
               ELSE Ok(PyStr(e))

\* User._validate_password
ValidatePassword(password) ==
    LET p == Chars(password)
    IN IF Len(p) < MinPasswordLen
       THEN Raise("ValueError", "Password is too short")
       ELSE IF ~\E i \in 1..Len(p) : IsDigit(p[i])
       THEN Raise("ValueError", "Password must contain at least one digit")
       ELSE IF ~\E i \in 1..Len(p) : IsUpper(p[i])
       THEN Raise("ValueError", "Password must contain at least one uppercase letter")
       ELSE Ok(password)

\* User.__init__(**user_data)
UserInit(data) ==
    LET first_name == Arg(data, "first_name", PyStr(<<>>))
        last_name == Arg(data, "last_name", PyStr(<<>>))
        email == Arg(data, "email", PyStr(<<>>))
        password == Arg(data, "password", PyStr(<<>>))
    IN IF ~(DOMAIN data \subseteq UserKwargs)
       THEN Refused("TypeError", "unexpected keyword argument", FALSE)
       ELSE IF ~(IsStr(first_name) /\ IsStr(last_name) /\ IsStr(email) /\ IsStr(password))
       THEN Refused("TypeError", "Invalid data: all fields must be strings", FALSE)
       ELSE
       LET fn == Strip(Chars(first_name))
           ln == Strip(Chars(last_name))
       IN IF fn = <<>> THEN Refused("ValueError", "First name is required", FALSE)
          ELSE IF Len(fn) > MaxNameLen
          THEN Refused("ValueError", "First name must not exceed 50 characters", FALSE)
          ELSE IF ln = <<>> THEN Refused("ValueError", "Last name is required", FALSE)
          ELSE IF Len(ln) > MaxNameLen
          THEN Refused("ValueError", "Last name must not exceed 50 characters", FALSE)
          ELSE IF ~Truthy(email) THEN Refused("ValueError", "Email is required", FALSE)
          ELSE IF ~Truthy(password) THEN Refused("ValueError", "Password is required", FALSE)
          ELSE
          \* super().__init__() has run when the email and the password are validated
          LET e == ValidateEmail(Chars(email))
              p == ValidatePassword(password)
          IN IF e.out /= "ok" THEN Refused(e.out, e.msg, TRUE)
             ELSE IF p.out /= "ok" THEN Refused(p.out, p.msg, TRUE)
             ELSE Built([first_name |-> PyStr(fn),
                         last_name |-> PyStr(ln),
                         email |-> e.val,
                         password |-> p.val,
                         is_admin |-> PyBool(FALSE),
                         place_ids |-> PyList(<<>>),
                         review_ids |-> PyList(<<>>)])

\* ------------------------------------------------------------------- facade
\* what the last facade call was given and how it ended: out is "ok" (an
\* entity or True is returned), "None" (the not-found sentinel) or the
\* exception raised
Called(op, id, data, out, msg) ==
    [op |-> op, id |-> id, data |-> data, out |-> out, msg |-> msg]

NoData == [k \in {} |-> PyNone]

\* uuid.uuid4() never repeats: the n-th id of a kind is a number of its own
NewId(kind) ==
    issued[kind] + 1 +
        CASE kind = "user" -> 100
          [] kind = "place" -> 200
          [] kind = "review" -> 300
          [] kind = "amenity" -> 400

Issue(kind) == [issued EXCEPT ![kind] = @ + 1]

\* the callers of a multi-threaded host that are inside update_place
Threads == {1, 2}

\* a caller that has made no call
NotCalled ==
    [pc |-> "idle", place_id |-> PyNone, data |-> NoData, rest |-> <<>>,
     clean |-> NoData, todo |-> {}]

\* no call made; origin is the place repository when the calls were made,
\* overlapped tells whether a statement of one call has run between two
\* statements of the other
NoCalls == [origin |-> <<>>, overlapped |-> FALSE, of |-> [t \in Threads |-> NotCalled]]

Init ==
    /\ user_repo = <<>>
    /\ place_repo = <<>>
    /\ review_repo = <<>>
    /\ amenity_repo = <<>>
    /\ clock = 0
    /\ issued = [user |-> 0, place |-> 0, review |-> 0, amenity |-> 0]
    /\ last = Called("init", PyNone, NoData, "ok", "")
    /\ calls = NoCalls

\* how far the clock may move between two readings of datetime.now()
Ticks == {0, 1}

\* HBnBFacade.create_user
CreateUser(user_data, d1, d2) ==
    /\ issued["user"] < MaxUsers
    /\ clock + d1 + d2 <= MaxClock
    /\ LET r == UserInit(user_data)
           user == BaseInit(r.val, NewId("user"), clock + d1, clock + d1 + d2)
       IN /\ user_repo' = IF r.out = "ok" THEN RepoAdd(user_repo, user) ELSE user_repo
          /\ issued' = IF r.out = "ok" THEN Issue("user") ELSE issued
          /\ clock' = IF r.based THEN clock + d1 + d2 ELSE clock
          /\ last' = Called("create_user",
                            IF r.out = "ok" THEN PyUuid(NewId("user")) ELSE PyNone,
                            user_data, r.out, r.msg)
    /\ UNCHANGED <<place_repo, review_repo, amenity_repo, calls>>

\* HBnBFacade.get_user_by_email: the index of the first user with that email
GetUserByEmail(email) == RepoGetByAttribute(user_repo, "email", email)

UserForbiddenNoAdmin == {"id", "created_at", "updated_at", "place_ids", "review_ids"}

UserForbidden == {"id", "created_at", "updated_at", "is_admin", "place_ids", "review_ids"}

\* update_user, first_name and last_name: a string, trimmed, not empty
UpdateUserName(clean_data, key) ==
    IF key \notin DOMAIN clean_data THEN Ok(clean_data)
    ELSE IF ~IsStr(clean_data[key]) THEN Raise("TypeError", "must be a string")
    ELSE LET name == Strip(Chars(clean_data[key]))
         IN IF name = <<>> THEN Raise("ValueError", "cannot be empty")
            ELSE Ok(With(clean_data, key, PyStr(name)))

\* re.match(r"^[^@\s]+@[^@\s]+\.[^@\s]+$", email)
NoAtNoSpace(s) == s /= <<>> /\ \A i \in 1..Len(s) : s[i] /= "@" /\ ~IsSpace(s[i])

EmailRegexMatches(e) ==
    \E at \in 1..Len(e), dot \in 1..Len(e) :
        /\ e[at] = "@"
        /\ e[dot] = "."
        /\ at < dot
        /\ NoAtNoSpace(SubSeq(e, 1, at - 1))
        /\ NoAtNoSpace(SubSeq(e, at + 1, dot - 1))
        /\ NoAtNoSpace(SubSeq(e, dot + 1, Len(e)))

\* update_user, email
UpdateUserEmail(clean_data) ==
    IF "email" \notin DOMAIN clean_data THEN Ok(clean_data)
    ELSE IF ~IsStr(clean_data["email"]) THEN Raise("TypeError", "email must be a string")
    ELSE LET email == Lower(Strip(Chars(clean_data["email"])))
         IN IF email = <<>> THEN Raise("ValueError", "email cannot be empty")
            ELSE IF ~EmailRegexMatches(email) THEN Raise("ValueError", "Invalid email format")
            ELSE Ok(With(clean_data, "email", PyStr(email)))

\* update_user, from the forbidden keys to the validated clean_data
UpdateUserClean(user_data) ==
    LET r1 == UpdateUserName(Without(user_data, UserForbidden), "first_name")
    IN IF r1.out /= "ok" THEN r1
       ELSE LET r2 == UpdateUserName(r1.val, "last_name")
            IN IF r2.out /= "ok" THEN r2 ELSE UpdateUserEmail(r2.val)

\* HBnBFacade.update_user
UpdateUser(user_id, user_data, d) ==
    /\ clock + d <= MaxClock
    /\ IF ~RepoHas(user_repo, user_id)
       THEN /\ last' = Called("update_user", user_id, user_data, "None", "")
            /\ UNCHANGED <<user_repo, clock>>
       ELSE LET r == UpdateUserClean(user_data)
            IN /\ user_repo' = IF r.out = "ok"
                               THEN RepoUpdate(user_repo, user_id, r.val, clock + d)
                               ELSE user_repo
               /\ clock' = IF r.out = "ok" THEN clock + d ELSE clock
               /\ last' = Called("update_user", user_id, user_data, r.out, r.msg)
    /\ UNCHANGED <<place_repo, review_repo, amenity_repo, issued, calls>>

\* -------------------------------------------------------------------- Place
PlaceKwargs ==
    {"owner_id", "title", "description", "price", "latitude", "longitude", "amenities"}
PlaceRequired == {"owner_id", "title"}
MaxTitleLen == 100
MaxLatitude == 90
MaxLongitude == 180

\* the checks Place.__init__ and update_place share, field by field
CheckTitle(title) ==
    IF ~IsStr(title) THEN Raise("TypeError", "Title must be a string")
    ELSE LET t == Strip(Chars(title))
         IN IF t = <<>> THEN Raise("ValueError", "Title cannot be empty")
            ELSE IF Len(t) > MaxTitleLen
            THEN Raise("ValueError", "Title must be <= 100 characters")
            ELSE Ok(PyStr(t))

CheckDescription(description) ==
    LET d == IF description = PyNone THEN PyStr(<<>>) ELSE description
    IN IF ~IsStr(d) THEN Raise("TypeError", "Description must be a string")
       ELSE Ok(PyStr(Strip(Chars(d))))

CheckPrice(price) ==
    IF ~IsNumber(price) THEN Raise("TypeError", "Price must be a number")
    ELSE IF NumLe(price, 0) THEN Raise("ValueError", "Price must be positive")
    ELSE Ok(ToFloat(price))

CheckLatitude(latitude) ==
    IF ~IsNumber(latitude) THEN Raise("TypeError", "Latitude must be a number")
    ELSE IF NumLt(latitude, -MaxLatitude) \/ NumGt(latitude, MaxLatitude)
    THEN Raise("ValueError", "Latitude must be between -90 and 90")
    ELSE Ok(ToFloat(latitude))

CheckLongitude(longitude) ==
    IF ~IsNumber(longitude) THEN Raise("TypeError", "Longitude must be a number")
    ELSE IF NumLt(longitude, -MaxLongitude) \/ NumGt(longitude, MaxLongitude)
    THEN Raise("ValueError", "Longitude must be between -180 and 180")
    ELSE Ok(ToFloat(longitude))

\* Place.__init__, the amenities list: every element a UUID string
CheckAmenities(amenities) ==
    LET a == IF amenities = PyNone THEN PyList(<<>>) ELSE amenities
    IN IF ~IsList(a) THEN Raise("TypeError", "amenities must be a list of UUID strings")
       ELSE IF \E i \in 1..Len(a.l) :
                 /\ ValidateUuidElem(a.l[i]).out /= "ok"
                 /\ \A j \in 1..(i - 1) : ValidateUuidElem(a.l[j]).out = "ok"
       THEN LET i == CHOOSE i \in 1..Len(a.l) :
                        /\ ValidateUuidElem(a.l[i]).out /= "ok"
                        /\ \A j \in 1..(i - 1) : ValidateUuidElem(a.l[j]).out = "ok"
            IN ValidateUuidElem(a.l[i])
       ELSE Ok(a)

\* Place.__init__(**place_data)
PlaceInit(data) ==
    IF ~(DOMAIN data \subseteq PlaceKwargs) \/ ~(PlaceRequired \subseteq DOMAIN data)
    THEN Refused("TypeError", "unexpected or missing keyword argument", FALSE)
    ELSE
    LET o == ValidateUuid(data["owner_id"])
        t == CheckTitle(data["title"])
        d == CheckDescription(Arg(data, "description", PyStr(<<>>)))
        p == CheckPrice(Arg(data, "price", PyInt(0)))
        la == CheckLatitude(Arg(data, "latitude", PyInt(0)))
        lo == CheckLongitude(Arg(data, "longitude", PyInt(0)))
        a == CheckAmenities(Arg(data, "amenities", PyNone))
    IN IF o.out /= "ok" THEN Refused(o.out, o.msg, FALSE)
       ELSE IF t.out /= "ok" THEN Refused(t.out, t.msg, FALSE)
       ELSE IF d.out /= "ok" THEN Refused(d.out, d.msg, FALSE)
       ELSE IF p.out /= "ok" THEN Refused(p.out, p.msg, FALSE)
       ELSE IF la.out /= "ok" THEN Refused(la.out, la.msg, FALSE)
       ELSE IF lo.out /= "ok" THEN Refused(lo.out, lo.msg, FALSE)
       ELSE IF a.out /= "ok" THEN Refused(a.out, a.msg, FALSE)
       ELSE Built([owner_id |-> data["owner_id"],
                   title |-> t.val,
                   description |-> d.val,
                   price |-> p.val,
                   latitude |-> la.val,
                   longitude |-> lo.val,
                   review_ids |-> PyList(<<>>),
                   amenity_ids |-> a.val])

InListNever(ids, e) == FALSE

\* amenity_id in self.amenity_ids
InList(ids, e) == \E i \in 1..Len(ids) : ids[i] = e

\* Place.add_amenity_id, on the list it appends to
AddAmenityId(amenity_ids, amenity_id) ==
    LET v == ValidateUuidElem(amenity_id)
    IN IF v.out /= "ok" THEN v
       ELSE IF InList(amenity_ids, amenity_id) THEN Ok(amenity_ids)
       ELSE Ok(Append(amenity_ids, amenity_id))

\* Place.add_review_id
AddReviewId(review_ids, review_id) ==
    LET v == ValidateUuidElem(review_id)
    IN IF v.out /= "ok" THEN v
       ELSE IF InList(review_ids, review_id) THEN Ok(review_ids)
       ELSE Ok(Append(review_ids, review_id))

\* create_place that takes the owner as found
OwnerAssumed(owner_id) == TRUE

\* create_place: self.user_repo.get(place_data["owner_id"]) is an object
OwnerFound(owner_id) == RepoHas(user_repo, owner_id)

\* HBnBFacade.create_place
CreatePlace(place_data, d1, d2) ==
    /\ issued["place"] < MaxPlaces
    /\ clock + d1 + d2 <= MaxClock
    /\ IF "owner_id" \notin DOMAIN place_data
       THEN /\ last' = Called("create_place", PyNone, place_data, "KeyError", "owner_id")
            /\ UNCHANGED <<place_repo, issued, clock>>
       ELSE IF ~OwnerFound(place_data["owner_id"])
       THEN /\ last' = Called("create_place", PyNone, place_data,
                              "ValueError", "Owner not found")
            /\ UNCHANGED <<place_repo, issued, clock>>
       ELSE LET r == PlaceInit(place_data)
                place == BaseInit(r.val, NewId("place"), clock + d1, clock + d1 + d2)
            IN /\ place_repo' = IF r.out = "ok" THEN RepoAdd(place_repo, place)
                                ELSE place_repo
               /\ issued' = IF r.out = "ok" THEN Issue("place") ELSE issued
               /\ clock' = IF r.based THEN clock + d1 + d2 ELSE clock
               /\ last' = Called("create_place",
                                 IF r.out = "ok" THEN PyUuid(NewId("place")) ELSE PyNone,
                                 place_data, r.out, r.msg)
    /\ UNCHANGED <<user_repo, review_repo, amenity_repo, calls>>

PlaceForbiddenNoOwner == {"id", "created_at", "updated_at"}

PlaceForbidden == {"id", "created_at", "updated_at", "owner_id"}

\* update_place: place.amenity_ids = [], then add_amenity_id for each element;
\* val is the list as the loop leaves it, also when an element raises
RECURSIVE UpdatePlaceAmenities(_, _)
UpdatePlaceAmenities(amenity_ids, amenities) ==
    IF amenities = <<>> THEN Ok(amenity_ids)
    ELSE LET r == AddAmenityId(amenity_ids, Head(amenities))
         IN IF r.out /= "ok" THEN [out |-> r.out, msg |-> r.msg, val |-> amenity_ids]
            ELSE UpdatePlaceAmenities(r.val, Tail(amenities))

\* update_place: one "if key in clean_data" block, after the blocks before it
UpdatePlaceField(r, key, Check(_)) ==
    IF r.out /= "ok" \/ key \notin DOMAIN r.val THEN r
    ELSE LET c == Check(r.val[key])
         IN IF c.out /= "ok" THEN c ELSE Ok(With(r.val, key, c.val))

UpdatePlaceTitle(title) ==
    IF ~IsStr(title) THEN Raise("TypeError", "Title must be a string")
    ELSE LET t == Strip(Chars(title))
         IN IF t = <<>> THEN Raise("ValueError", "Title cannot be empty")
            ELSE IF Len(t) > MaxTitleLen
            THEN Raise("ValueError", "Title must be <= 100 characters")
            ELSE Ok(PyStr(t))

UpdatePlaceDescription(description) ==
    LET d == IF description = PyNone THEN PyStr(<<>>) ELSE description
    IN IF ~IsStr(d) THEN Raise("TypeError", "Description must be a string")
       ELSE Ok(PyStr(Strip(Chars(d))))

UpdatePlacePrice(price) ==
    IF ~IsNumber(price) THEN Raise("TypeError", "Price must be a number")
    ELSE IF NumLe(price, 0) THEN Raise("ValueError", "Price must be positive")
    ELSE Ok(ToFloat(price))

UpdatePlaceLatitude(latitude) ==
    IF ~IsNumber(latitude) THEN Raise("TypeError", "Latitude must be a number")
    ELSE IF NumLt(latitude, -MaxLatitude) \/ NumGt(latitude, MaxLatitude)
    THEN Raise("ValueError", "Latitude must be between -90 and 90")
    ELSE Ok(ToFloat(latitude))

UpdatePlaceLongitude(longitude) ==
    IF ~IsNumber(longitude) THEN Raise("TypeError", "Longitude must be a number")
    ELSE IF NumLt(longitude, -MaxLongitude) \/ NumGt(longitude, MaxLongitude)
    THEN Raise("ValueError", "Longitude must be between -180 and 180")
    ELSE Ok(ToFloat(longitude))

\* update_place, from the forbidden keys to the validated clean_data
UpdatePlaceClean(place_data) ==
    UpdatePlaceField(
        UpdatePlaceField(
            UpdatePlaceField(
                UpdatePlaceField(
                    UpdatePlaceField(Ok(Without(place_data, PlaceForbidden)),
                                     "title", UpdatePlaceTitle),
                    "description", UpdatePlaceDescription),
                "price", UpdatePlacePrice),
            "latitude", UpdatePlaceLatitude),
        "longitude", UpdatePlaceLongitude)

\* HBnBFacade.update_place; the place is the stored object, so what the
\* amenities block assigns is stored even when a later check raises
UpdatePlace(place_id, place_data, d) ==
    /\ clock + d <= MaxClock
    /\ IF ~RepoHas(place_repo, place_id)
       THEN /\ last' = Called("update_place", place_id, place_data, "None", "")
            /\ UNCHANGED <<place_repo, clock>>
       ELSE
       LET i == RepoIndex(place_repo, place_id)
           place == place_repo[i]
           given == "amenities" \in DOMAIN place_data /\ place_data["amenities"] /= PyNone
       IN IF given /\ ~IsList(place_data["amenities"])
          THEN /\ last' = Called("update_place", place_id, place_data, "TypeError",
                                 "amenities must be a list of UUID strings")
               /\ UNCHANGED <<place_repo, clock>>
          ELSE
          LET a == IF given THEN UpdatePlaceAmenities(<<>>, place_data["amenities"].l)
                   ELSE Ok(<<>>)
              assigned == IF given THEN [place EXCEPT !.amenity_ids = PyList(a.val)]
                          ELSE place
              r == IF a.out /= "ok" THEN a ELSE UpdatePlaceClean(place_data)
          IN /\ place_repo' =
                   IF r.out = "ok"
                   THEN RepoUpdate([place_repo EXCEPT ![i] = assigned],
                                   place_id, r.val, clock + d)
                   ELSE [place_repo EXCEPT ![i] = assigned]
             /\ clock' = IF r.out = "ok" THEN clock + d ELSE clock
             /\ last' = Called("update_place", place_id, place_data, r.out, r.msg)
    /\ UNCHANGED <<user_repo, review_repo, amenity_repo, issued, calls>>

\* ------------------------------------------------------------------- Review
ReviewKwargs == {"rating", "text", "user_id", "place_id"}
MinRating == 1
MaxRating == 5

\* Review.__init__(**review_data)
ReviewInit(data) ==
    IF DOMAIN data /= ReviewKwargs
    THEN Refused("TypeError", "unexpected or missing keyword argument", FALSE)
    ELSE
    LET u == ValidateUuid(data["user_id"])
        p == ValidateUuid(data["place_id"])
        rating == data["rating"]
        text == data["text"]
    IN IF u.out /= "ok" THEN Refused(u.out, u.msg, FALSE)
       ELSE IF p.out /= "ok" THEN Refused(p.out, p.msg, FALSE)
       ELSE IF ~IsInt(rating) THEN Refused("TypeError", "Rating must be an integer", FALSE)
       ELSE IF rating.n < MinRating \/ rating.n > MaxRating
       THEN Refused("ValueError", "Rating must be between 1 and 5", FALSE)
       ELSE IF ~IsStr(text) THEN Refused("TypeError", "Text must be a string", FALSE)
       ELSE IF Strip(Chars(text)) = <<>>
       THEN Refused("ValueError", "Text must not be empty", FALSE)
       ELSE Built([user_id |-> data["user_id"],
                   place_id |-> data["place_id"],
                   rating |-> rating,
                   text |-> PyStr(Strip(Chars(text)))])

\* create_review: self.user_repo.get(review_data["user_id"]) is an object
AuthorFound(user_id) == RepoHas(user_repo, user_id)

ReviewedPlaceWellFormed(place_id) == place_id.t = "uuid"

\* create_review: self.place_repo.get(review_data["place_id"]) is an object
ReviewedPlaceFound(place_id) == RepoHas(place_repo, place_id)

\* create_review that also adds the new id to the review_ids of its place
CreateReviewLinking(review_data, d1, d2) ==
    /\ issued["review"] < MaxReviews
    /\ clock + d1 + d2 <= MaxClock
    /\ AuthorFound(review_data["user_id"])
    /\ ReviewedPlaceFound(review_data["place_id"])
    /\ LET r == ReviewInit(review_data)
           review == BaseInit(r.val, NewId("review"), clock + d1, clock + d1 + d2)
           i == RepoIndex(place_repo, review_data["place_id"])
       IN /\ r.out = "ok"
          /\ review_repo' = RepoAdd(review_repo, review)
          /\ place_repo' =
                [place_repo EXCEPT ![i].review_ids =
                    PyList(AddReviewId(@.l, NewId("review")).val)]
          /\ issued' = Issue("review")
          /\ clock' = clock + d1 + d2
          /\ last' = Called("create_review", PyUuid(NewId("review")), review_data, "ok", "")
    /\ UNCHANGED <<user_repo, amenity_repo, calls>>

\* HBnBFacade.create_review
CreateReview(review_data, d1, d2) ==
    /\ issued["review"] < MaxReviews
    /\ clock + d1 + d2 <= MaxClock
    /\ IF "user_id" \notin DOMAIN review_data
       THEN /\ last' = Called("create_review", PyNone, review_data, "KeyError", "user_id")
            /\ UNCHANGED <<review_repo, issued, clock>>
       ELSE IF ~AuthorFound(review_data["user_id"])
       THEN /\ last' = Called("create_review", PyNone, review_data,
                              "ValueError", "User not found")
            /\ UNCHANGED <<review_repo, issued, clock>>
       ELSE IF "place_id" \notin DOMAIN review_data
       THEN /\ last' = Called("create_review", PyNone, review_data, "KeyError", "place_id")
            /\ UNCHANGED <<review_repo, issued, clock>>
       ELSE IF ~ReviewedPlaceFound(review_data["place_id"])
       THEN /\ last' = Called("create_review", PyNone, review_data,
                              "ValueError", "Place not found")
            /\ UNCHANGED <<review_repo, issued, clock>>
       ELSE LET r == ReviewInit(review_data)
                review == BaseInit(r.val, NewId("review"), clock + d1, clock + d1 + d2)
            IN /\ review_repo' = IF r.out = "ok" THEN RepoAdd(review_repo, review)
                                 ELSE review_repo
               /\ issued' = IF r.out = "ok" THEN Issue("review") ELSE issued
               /\ clock' = IF r.based THEN clock + d1 + d2 ELSE clock
               /\ last' = Called("create_review",
                                 IF r.out = "ok" THEN PyUuid(NewId("review")) ELSE PyNone,
                                 review_data, r.out, r.msg)
    /\ UNCHANGED <<user_repo, place_repo, amenity_repo, calls>>

GetReviewsByPlaceUnfiltered(place_id) == RepoGetAll(review_repo)

\* HBnBFacade.get_reviews_by_place
GetReviewsByPlace(place_id) ==
    SelectSeq(RepoGetAll(review_repo), LAMBDA review : review.place_id = place_id)

ReviewForbiddenBaseOnly == {"id", "created_at", "updated_at"}

ReviewForbidden == {"id", "created_at", "updated_at", "user_id", "place_id"}

\* update_review, the text block
UpdateReviewText(clean_data) ==
    IF "text" \notin DOMAIN clean_data THEN Ok(clean_data)
    ELSE IF ~IsStr(clean_data["text"]) THEN Raise("TypeError", "Text must be a string")
    ELSE LET text == Strip(Chars(clean_data["text"]))
         IN IF text = <<>> THEN Raise("ValueError", "Text cannot be empty")
            ELSE Ok(With(clean_data, "text", PyStr(text)))

\* the rating block with its lower bound one too low
UpdateReviewRatingFromZero(clean_data) ==
    LET rating == clean_data["rating"]
    IN IF ~IsInt(rating) \/ rating.t = "bool"
       THEN Raise("TypeError", "Rating must be an integer")
       ELSE IF rating.n < MinRating - 1 \/ rating.n > MaxRating
       THEN Raise("ValueError", "Rating must be between 1 and 5")
       ELSE Ok(clean_data)

\* update_review, the checks of the rating block
UpdateReviewRating(clean_data) ==
    LET rating == clean_data["rating"]
    IN IF ~IsInt(rating) \/ rating.t = "bool"
       THEN Raise("TypeError", "Rating must be an integer")
       ELSE IF rating.n < MinRating \/ rating.n > MaxRating
       THEN Raise("ValueError", "Rating must be between 1 and 5")
       ELSE Ok(clean_data)

\* update_review: the repository update and the return are statements of the
\* rating block; without a rating the function ends and returns None
UpdateReviewStores(clean_data) == "rating" \in DOMAIN clean_data

\* HBnBFacade.update_review
UpdateReview(review_id, review_data, d) ==
    /\ clock + d <= MaxClock
    /\ IF ~RepoHas(review_repo, review_id)
       THEN /\ last' = Called("update_review", review_id, review_data, "None", "")
            /\ UNCHANGED <<review_repo, clock>>
       ELSE
       LET t == UpdateReviewText(Without(review_data, ReviewForbidden))
       IN IF t.out /= "ok"
          THEN /\ last' = Called("update_review", review_id, review_data, t.out, t.msg)
               /\ UNCHANGED <<review_repo, clock>>
          ELSE IF ~UpdateReviewStores(t.val)
          THEN /\ last' = Called("update_review", review_id, review_data, "None", "")
               /\ UNCHANGED <<review_repo, clock>>
          ELSE
          LET r == UpdateReviewRating(t.val)
          IN /\ review_repo' = IF r.out = "ok"
                               THEN RepoUpdate(review_repo, review_id, r.val, clock + d)
                               ELSE review_repo
             /\ clock' = IF r.out = "ok" THEN clock + d ELSE clock
             /\ last' = Called("update_review", review_id, review_data, r.out, r.msg)
    /\ UNCHANGED <<user_repo, place_repo, amenity_repo, issued, calls>>

\* delete_review that also takes the id out of every place's review_ids
DeleteReviewCascading(review_id) ==
    /\ IF ~RepoHas(review_repo, review_id)
       THEN /\ last' = Called("delete_review", review_id, NoData, "None", "")
            /\ UNCHANGED <<review_repo, place_repo>>
       ELSE /\ review_repo' = RepoDelete(review_repo, review_id)
            /\ place_repo' =
                  [i \in 1..Len(place_repo) |->
                      [place_repo[i] EXCEPT !.review_ids.l =
                          SelectSeq(@, LAMBDA e : e /= review_id.n)]]
            /\ last' = Called("delete_review", review_id, NoData, "ok", "")
    /\ UNCHANGED <<user_repo, amenity_repo, clock, issued, calls>>

\* HBnBFacade.delete_review
DeleteReview(review_id) ==
    /\ IF ~RepoHas(review_repo, review_id)
       THEN /\ last' = Called("delete_review", review_id, NoData, "None", "")
            /\ UNCHANGED review_repo
       ELSE /\ review_repo' = RepoDelete(review_repo, review_id)
            /\ last' = Called("delete_review", review_id, NoData, "ok", "")
    /\ UNCHANGED <<user_repo, place_repo, amenity_repo, clock, issued, calls>>

\* ------------------------------------------------------------------ Amenity
MaxAmenityNameLen == 50

\* Amenity.__init__(name)
AmenityInit(name) ==
    IF ~IsStr(name) THEN Refused("TypeError", "Name must be a string", FALSE)
    ELSE LET n == Strip(Chars(name))
         IN IF n = <<>> THEN Refused("ValueError", "Name cannot be empty", FALSE)
            ELSE IF Len(n) > MaxAmenityNameLen
            THEN Refused("ValueError", "Name must be 50 characters maximum", FALSE)
            ELSE Built([name |-> PyStr(n)])

\* HBnBFacade.create_amenity
CreateAmenity(amenity_data, d1, d2) ==
    /\ issued["amenity"] < MaxAmenities
    /\ clock + d1 + d2 <= MaxClock
    /\ IF "name" \notin DOMAIN amenity_data
       THEN /\ last' = Called("create_amenity", PyNone, amenity_data,
                              "ValueError", "name is required")
            /\ UNCHANGED <<amenity_repo, issued, clock>>
       ELSE LET r == AmenityInit(amenity_data["name"])
                amenity == BaseInit(r.val, NewId("amenity"), clock + d1, clock + d1 + d2)
            IN /\ amenity_repo' = IF r.out = "ok" THEN RepoAdd(amenity_repo, amenity)
                                  ELSE amenity_repo
               /\ issued' = IF r.out = "ok" THEN Issue("amenity") ELSE issued
               /\ clock' = IF r.based THEN clock + d1 + d2 ELSE clock
               /\ last' = Called("create_amenity",
                                 IF r.out = "ok" THEN PyUuid(NewId("amenity")) ELSE PyNone,
                                 amenity_data, r.out, r.msg)
    /\ UNCHANGED <<user_repo, place_repo, review_repo, calls>>

AmenityForbidden == {"id", "created_at", "updated_at"}

\* update_amenity, the checks of the name; clean_data keeps the name as given
UpdateAmenityClean(amenity_data) ==
    IF "name" \notin DOMAIN amenity_data THEN Raise("ValueError", "name is required")
    ELSE IF ~IsStr(amenity_data["name"]) THEN Raise("TypeError", "Name must be a string")
    ELSE LET name == Strip(Chars(amenity_data["name"]))
         IN IF name = <<>> THEN Raise("ValueError", "Name cannot be empty")
            ELSE IF Len(name) > MaxAmenityNameLen
            THEN Raise("ValueError", "Name must be 50 characters maximum")
            ELSE Ok(Without(amenity_data, AmenityForbidden))

AmenityToUpdateAssumed(amenity_id) == TRUE

\* update_amenity: self.get_amenity(amenity_id) is an object
AmenityToUpdateFound(amenity_id) == RepoHas(amenity_repo, amenity_id)

\* HBnBFacade.update_amenity
UpdateAmenity(amenity_id, amenity_data, d) ==
    /\ clock + d <= MaxClock
    /\ IF ~AmenityToUpdateFound(amenity_id)
       THEN /\ last' = Called("update_amenity", amenity_id, amenity_data, "None", "")
            /\ UNCHANGED <<amenity_repo, clock>>
       ELSE LET r == UpdateAmenityClean(amenity_data)
            IN /\ amenity_repo' = IF r.out = "ok"
                                  THEN RepoUpdate(amenity_repo, amenity_id, r.val, clock + d)
                                  ELSE amenity_repo
               /\ clock' = IF r.out = "ok" THEN clock + d ELSE clock
               /\ last' = Called("update_amenity", amenity_id, amenity_data, r.out, r.msg)
    /\ UNCHANGED <<user_repo, place_repo, review_repo, issued, calls>>

\* ------------------------------------------------------------------- inputs
NameA == <<"a">>
NameB == <<" ", "b", " ">>
EmailA == <<"a", "@", "x", ".", "x">>
EmailAShouted == <<" ", "A", "@", "X", ".", "x", " ">>
EmailB == <<"b", "@", "x", ".", "x">>
GoodPassword == <<"A", "b", "c", "d", "e", "1">>

\* the id strings a caller may pass: those issued so far for a kind
Issued(kind) == {PyUuid(NewId(kind) - i) : i \in 1..issued[kind]}
\* the nil UUID, well-formed and never issued
Nil == PyUuid(NilUuid)

NewUser(first, email) ==
    [first_name |-> PyStr(first), last_name |-> PyStr(NameA),
     email |-> PyStr(email), password |-> PyStr(GoodPassword)]

CreateUserInputs ==
    {NewUser(NameA, EmailA), NewUser(NameB, EmailAShouted), NewUser(NameA, EmailB)}

UpdateUserInputs ==
    {[email |-> PyStr(EmailAShouted)],
     [is_admin |-> PyBool(TRUE), first_name |-> PyStr(NameB)],
     [id |-> PyUuid(NilUuid), created_at |-> PyInt(0),
      place_ids |-> PyList(<<NilUuid>>), review_ids |-> PyList(<<NilUuid>>)]}

\* a string that is no UUID
Malformed == PyStr(<<"z">>)
\* the keys a caller may name for a kind: its ids issued so far and the nil UUID
Keys(kind) == Issued(kind) \cup {Nil}

TitleT == <<"t">>
TextG == <<"g">>
NameW == <<"w">>

NewPlace(owner_id) ==
    [owner_id |-> owner_id, title |-> PyStr(TitleT), price |-> PyInt(1)]

NewReview(user_id, place_id) ==
    [user_id |-> user_id, place_id |-> place_id, rating |-> PyInt(5), text |-> PyStr(TextG)]

NewAmenity == [name |-> PyStr(NameW)]

\* updates that name the references and the identity of a record, and updates
\* with a field that fails its check
RefUpdateUserInputs ==
    {[id |-> Nil, first_name |-> PyStr(NameA)], [email |-> PyInt(5)]}
RefUpdatePlaceInputs ==
    {[owner_id |-> Nil, title |-> PyStr(TitleT)], [price |-> Malformed]}
RefUpdateReviewInputs ==
    {[user_id |-> Nil, place_id |-> Nil, rating |-> PyInt(5)], [text |-> PyStr(<<>>)]}
RefUpdateAmenityInputs ==
    {[id |-> Nil, name |-> PyStr(NameW)], NoData}

\* time standing still
Still == {0}

\* the ids a caller may list as amenities: those of the amenities created so
\* far and the nil UUID
AmenityIds == {key.n : key \in Keys("amenity")}

TitleU == <<" ", "u", " ">>

\* places with and without a list of amenities
CreatePlaceInputs(owner_id) ==
    {NewPlace(owner_id)}
        \cup {With(NewPlace(owner_id), "amenities", PyList(<<a>>)) : a \in AmenityIds}

\* updates of the amenities, alone, with a second element that is no UUID and
\* with a price that fails its check, and updates that name the id lists
UpdatePlaceInputs ==
    {[amenities |-> PyList(<<a>>)] : a \in AmenityIds}
        \cup {[amenities |-> PyList(<<a, BadUuid>>)] : a \in AmenityIds}
        \cup {[amenities |-> PyList(<<a>>), price |-> PyInt(-1)] : a \in AmenityIds}
        \cup {[amenity_ids |-> Malformed, title |-> PyStr(TitleU)],
              [review_ids |-> PyInt(5)]}

\* updates that name an owner, alone, with fields that pass their checks and
\* with a price that fails its check
OwnerUpdatePlaceInputs ==
    {[owner_id |-> owner_id] : owner_id \in Keys("user")}
        \cup {[owner_id |-> owner_id, title |-> PyStr(TitleU), price |-> PyInt(2)] :
                 owner_id \in Keys("user")}
        \cup {[owner_id |-> owner_id, price |-> PyInt(-1)] : owner_id \in Keys("user")}

TextH == <<" ", "h">>

\* updates of a review: the text alone, the rating alone, both, and a rating
\* that fails its check
UpdateReviewInputs ==
    {[text |-> PyStr(TextH)], [rating |-> PyInt(1)],
     [text |-> PyStr(TextH), rating |-> PyInt(1)],
     [text |-> PyStr(TextH), rating |-> PyInt(6)]}

\* updates that name a review written so far, or the nil UUID, as a place's
\* review_ids
ListReviewsInputs ==
    {[review_ids |-> PyList(<<key.n>>)] : key \in Keys("review")}

\* ------------------------------------------------------------ specifications
\* the user operations of the facade
NextUsers ==
    \/ \E user_data \in CreateUserInputs, d1 \in Ticks, d2 \in Ticks :
          CreateUser(user_data, d1, d2)
    \/ \E user_id \in Keys("user"), user_data \in UpdateUserInputs, d \in Ticks :
          UpdateUser(user_id, user_data, d)

SpecUsers == Init /\ [][NextUsers]_vars

\* all nine operations of the facade, with every reference a caller may name
Next ==
    \/ \E d \in Still : CreateUser(NewUser(NameA, EmailA), d, d)
    \/ \E user_id \in Keys("user"), user_data \in RefUpdateUserInputs, d \in Still :
          UpdateUser(user_id, user_data, d)
    \/ \E owner_id \in Keys("user"), d \in Still : CreatePlace(NewPlace(owner_id), d, d)
    \/ \E place_id \in Keys("place"), place_data \in RefUpdatePlaceInputs, d \in Still :
          UpdatePlace(place_id, place_data, d)
    \/ \E user_id \in Keys("user"), place_id \in Keys("place"), d \in Still :
          CreateReview(NewReview(user_id, place_id), d, d)
    \/ \E review_id \in Keys("review"), review_data \in RefUpdateReviewInputs, d \in Still :
          UpdateReview(review_id, review_data, d)
    \/ \E review_id \in Keys("review") : DeleteReview(review_id)
    \/ \E d \in Still : CreateAmenity(NewAmenity, d, d)
    \/ \E amenity_id \in Keys("amenity"), amenity_data \in RefUpdateAmenityInputs,
            d \in Still :
          UpdateAmenity(amenity_id, amenity_data, d)

Spec == Init /\ [][Next]_vars

\* places and their amenities
NextPlaces ==
    \/ \E d \in Still : CreateUser(NewUser(NameA, EmailA), d, d)
    \/ \E d \in Still : CreateAmenity(NewAmenity, d, d)
    \/ \E owner_id \in Keys("user"), d \in Still :
          \E place_data \in CreatePlaceInputs(owner_id) : CreatePlace(place_data, d, d)
    \/ \E place_id \in Keys("place"), place_data \in UpdatePlaceInputs, d \in Ticks :
          UpdatePlace(place_id, place_data, d)

SpecPlaces == Init /\ [][NextPlaces]_vars

\* places and their owners
NextOwner ==
    \/ \E d \in Still : CreateUser(NewUser(NameA, EmailA), d, d)
    \/ \E owner_id \in Keys("user"), d \in Still : CreatePlace(NewPlace(owner_id), d, d)
    \/ \E place_id \in Keys("place"), place_data \in OwnerUpdatePlaceInputs, d \in Ticks :
          UpdatePlace(place_id, place_data, d)

SpecOwner == Init /\ [][NextOwner]_vars

\* reviews and their updates
NextReviews ==
    \/ \E d \in Still : CreateUser(NewUser(NameA, EmailA), d, d)
    \/ \E owner_id \in Keys("user"), d \in Still : CreatePlace(NewPlace(owner_id), d, d)
    \/ \E user_id \in Keys("user"), place_id \in Keys("place"), d1 \in Ticks, d2 \in Ticks :
          CreateReview(NewReview(user_id, place_id), d1, d2)
    \/ \E review_id \in Keys("review"), review_data \in UpdateReviewInputs, d \in Ticks :
          UpdateReview(review_id, review_data, d)
    \/ \E review_id \in Keys("review") : DeleteReview(review_id)

SpecReviews == Init /\ [][NextReviews]_vars

\* reviews deleted while a place lists them
NextDelete ==
    \/ \E d \in Still : CreateUser(NewUser(NameA, EmailA), d, d)
    \/ \E owner_id \in Keys("user"), d \in Still : CreatePlace(NewPlace(owner_id), d, d)
    \/ \E user_id \in Keys("user"), place_id \in Keys("place"), d \in Still :
          CreateReview(NewReview(user_id, place_id), d, d)
    \/ \E place_id \in Keys("place"), place_data \in ListReviewsInputs, d \in Still :
          UpdatePlace(place_id, place_data, d)
    \/ \E review_id \in Keys("review") : DeleteReview(review_id)

SpecDelete == Init /\ [][NextDelete]_vars

\* ------------------------------------------- the repository, called directly
\* the ids of the objects handed to the repository
ObjIds == {400 + i : i \in 1..(MaxAmenities + 1)}
\* the keys a caller may name: those ids and the nil UUID
ObjKeys == {PyUuid(id) : id \in ObjIds} \cup {Nil}
\* Amenity objects, constructed when the clock read 0; two objects may carry
\* the same id
Objs == {BaseInit([name |-> PyStr(n)], id, 0, 0) : n \in {NameW, NameA}, id \in ObjIds}
\* data for update
ObjUpdates == {[name |-> PyStr(NameB)], [id |-> Nil, name |-> PyStr(NameW)]}

\* InMemoryRepository.add(obj) on the amenity repository
CallAdd(obj) ==
    /\ amenity_repo' = RepoAdd(amenity_repo, obj)
    /\ last' = Called("add", PyUuid(obj.id), obj, "ok", "")
    /\ UNCHANGED <<user_repo, place_repo, review_repo, clock, issued, calls>>

\* InMemoryRepository.get(obj_id); data is the object returned
CallGet(obj_id) ==
    /\ last' = IF RepoHas(amenity_repo, obj_id)
               THEN Called("get", obj_id, RepoGet(amenity_repo, obj_id), "ok", "")
               ELSE Called("get", obj_id, NoData, "None", "")
    /\ UNCHANGED <<repos, clock, issued, calls>>

\* InMemoryRepository.update(obj_id, data); the clock is read by save()
CallUpdate(obj_id, data, d) ==
    /\ clock + d <= MaxClock
    /\ amenity_repo' = RepoUpdate(amenity_repo, obj_id, data, clock + d)
    /\ clock' = IF RepoHas(amenity_repo, obj_id) THEN clock + d ELSE clock
    /\ last' = Called("update", obj_id, data, "ok", "")
    /\ UNCHANGED <<user_repo, place_repo, review_repo, issued, calls>>

\* InMemoryRepository.delete(obj_id)
CallDelete(obj_id) ==
    /\ amenity_repo' = RepoDelete(amenity_repo, obj_id)
    /\ last' = Called("delete", obj_id, NoData, "ok", "")
    /\ UNCHANGED <<user_repo, place_repo, review_repo, clock, issued, calls>>

NextRepo ==
    \/ \E obj \in Objs : CallAdd(obj)
    \/ \E obj_id \in ObjKeys : CallGet(obj_id)
    \/ \E obj_id \in ObjKeys, data \in ObjUpdates, d \in Ticks : CallUpdate(obj_id, data, d)
    \/ \E obj_id \in ObjKeys : CallDelete(obj_id)

SpecRepo == Init /\ [][NextRepo]_vars

\* ------------------------------------------ the id lists of a stored Place
\* what a caller may pass as an amenity id and as a review id: the id first
\* issued for the kind, the nil UUID, a string that is no UUID, a non-string
AmenityIdArgs == {401, NilUuid, BadUuid, NotAStr}
ReviewIdArgs == {301, NilUuid, BadUuid, NotAStr}

\* Place.add_amenity_id on the stored place; an id is given as a list element
PlaceAddAmenityId(place_id, amenity_id) ==
    /\ RepoHas(place_repo, place_id)
    /\ LET i == RepoIndex(place_repo, place_id)
           r == AddAmenityId(place_repo[i].amenity_ids.l, amenity_id)
       IN /\ place_repo' = IF r.out = "ok"
                           THEN [place_repo EXCEPT ![i].amenity_ids = PyList(r.val)]
                           ELSE place_repo
          /\ last' = Called("add_amenity_id", place_id, [amenity_id |-> amenity_id],
                            r.out, r.msg)
    /\ UNCHANGED <<user_repo, review_repo, amenity_repo, clock, issued, calls>>

\* Place.add_review_id on the stored place
PlaceAddReviewId(place_id, review_id) ==
    /\ RepoHas(place_repo, place_id)
    /\ LET i == RepoIndex(place_repo, place_id)
           r == AddReviewId(place_repo[i].review_ids.l, review_id)
       IN /\ place_repo' = IF r.out = "ok"
                           THEN [place_repo EXCEPT ![i].review_ids = PyList(r.val)]
                           ELSE place_repo
          /\ last' = Called("add_review_id", place_id, [review_id |-> review_id],
                            r.out, r.msg)
    /\ UNCHANGED <<user_repo, review_repo, amenity_repo, clock, issued, calls>>

NextLists ==
    \/ \E d \in Still : CreateUser(NewUser(NameA, EmailA), d, d)
    \/ \E owner_id \in Keys("user"), d \in Still : CreatePlace(NewPlace(owner_id), d, d)
    \/ \E place_id \in Keys("place"), amenity_id \in AmenityIdArgs :
          PlaceAddAmenityId(place_id, amenity_id)
    \/ \E place_id \in Keys("place"), review_id \in ReviewIdArgs :
          PlaceAddReviewId(place_id, review_id)

SpecLists == Init /\ [][NextLists]_vars

\* lists of amenities that name an id once and twice
RepeatedAmenities ==
    {PyList(<<a>>) : a \in AmenityIds} \cup {PyList(<<a, a>>) : a \in AmenityIds}

\* places created and updated with such lists
NextRepeats ==
    \/ \E d \in Still : CreateUser(NewUser(NameA, EmailA), d, d)
    \/ \E d \in Still : CreateAmenity(NewAmenity, d, d)
    \/ \E owner_id \in Keys("user"), amenities \in RepeatedAmenities, d \in Still :
          CreatePlace(With(NewPlace(owner_id), "amenities", amenities), d, d)
    \/ \E place_id \in Keys("place"), amenities \in RepeatedAmenities, d \in Ticks :
          UpdatePlace(place_id, [amenities |-> amenities], d)

SpecRepeats == Init /\ [][NextRepeats]_vars

\* the clock has moved since it was last read
Moving == {1}

\* payloads with no key an update may apply: empty, and a protected key with
\* a key that is no attribute
TouchInputs == {NoData, [id |-> Nil, bogus |-> PyInt(1)]}

\* the four updates with nothing to apply
NextTouch ==
    \/ \E d \in Still : CreateUser(NewUser(NameA, EmailA), d, d)
    \/ \E owner_id \in Keys("user"), d \in Still : CreatePlace(NewPlace(owner_id), d, d)
    \/ \E user_id \in Keys("user"), place_id \in Keys("place"), d \in Still :
          CreateReview(NewReview(user_id, place_id), d, d)
    \/ \E d \in Still : CreateAmenity(NewAmenity, d, d)
    \/ \E user_id \in Keys("user"), user_data \in TouchInputs, d \in Moving :
          UpdateUser(user_id, user_data, d)
    \/ \E place_id \in Keys("place"), place_data \in TouchInputs, d \in Moving :
          UpdatePlace(place_id, place_data, d)
    \/ \E review_id \in Keys("review"), review_data \in TouchInputs, d \in Moving :
          UpdateReview(review_id, review_data, d)
    \/ \E amenity_id \in Keys("amenity"), amenity_data \in TouchInputs, d \in Moving :
          UpdateAmenity(amenity_id, amenity_data, d)

SpecTouch == Init /\ [][NextTouch]_vars

\* the ratings at and around the bounds
RatingArgs == {PyInt(0), PyInt(1), PyInt(5), PyInt(6)}

\* reviews created and updated with those ratings
NextRatings ==
    \/ \E d \in Still : CreateUser(NewUser(NameA, EmailA), d, d)
    \/ \E owner_id \in Keys("user"), d \in Still : CreatePlace(NewPlace(owner_id), d, d)
    \/ \E user_id \in Keys("user"), place_id \in Keys("place"), rating \in RatingArgs,
            d \in Still :
          CreateReview(With(NewReview(user_id, place_id), "rating", rating), d, d)
    \/ \E review_id \in Keys("review"), rating \in RatingArgs, d \in Still :
          UpdateReview(review_id, [rating |-> rating], d)

SpecRatings == Init /\ [][NextRatings]_vars

\* ----------------------------------------------------- ratings that are bools
BoolRatingArgs == {PyBool(TRUE), PyBool(FALSE), PyInt(1), PyInt(5)}

\* reviews created and updated with a rating that is True, False or an int
NextBools ==
    \/ \E d \in Still : CreateUser(NewUser(NameA, EmailA), d, d)
    \/ \E owner_id \in Keys("user"), d \in Still : CreatePlace(NewPlace(owner_id), d, d)
    \/ \E user_id \in Keys("user"), place_id \in Keys("place"),
            rating \in BoolRatingArgs, d \in Still :
          CreateReview(With(NewReview(user_id, place_id), "rating", rating), d, d)
    \/ \E review_id \in Keys("review"), rating \in BoolRatingArgs, d \in Still :
          UpdateReview(review_id, [rating |-> rating], d)

SpecBools == Init /\ [][NextBools]_vars

\* ------------------------------------------------- the numbers of a Place
\* the numbers on both sides of each bound, and a float that is nan
PriceArgs == {PyInt(-1), PyInt(0), PyInt(1), PyNaN}
LatitudeArgs ==
    {PyInt(-MaxLatitude - 1), PyInt(-MaxLatitude), PyInt(MaxLatitude),
     PyInt(MaxLatitude + 1), PyNaN}
LongitudeArgs ==
    {PyInt(-MaxLongitude - 1), PyFloat(-MaxLongitude), PyFloat(MaxLongitude),
     PyInt(MaxLongitude + 1), PyNaN}

NumberInputs ==
    {[price |-> price] : price \in PriceArgs}
        \cup {[latitude |-> latitude] : latitude \in LatitudeArgs}
        \cup {[longitude |-> longitude] : longitude \in LongitudeArgs}

\* places created and updated with one of those numbers
NextNumbers ==
    \/ \E d \in Still : CreateUser(NewUser(NameA, EmailA), d, d)
    \/ \E owner_id \in Issued("user"), numbers \in NumberInputs, d \in Still :
          CreatePlace(numbers @@ NewPlace(owner_id), d, d)
    \/ \E place_id \in Issued("place"), place_data \in NumberInputs, d \in Still :
          UpdatePlace(place_id, place_data, d)

SpecNumbers == Init /\ [][NextNumbers]_vars

\* ------------------------------------------------------ the names of a User
\* a name of n letters
NameOfLen(n) == [i \in 1..n |-> "a"]

\* names at and over the limit, a name with spaces around it, a blank name
NameArgs ==
    {PyStr(NameOfLen(MaxNameLen)), PyStr(NameOfLen(MaxNameLen + 1)), PyStr(NameB),
     PyStr(<<" ">>)}

NameInputs ==
    {[first_name |-> name] : name \in NameArgs}
        \cup {[last_name |-> name] : name \in NameArgs}

\* users created and renamed
NextNames ==
    \/ \E name \in NameArgs, email \in {EmailA, EmailB}, d \in Still :
          CreateUser(With(NewUser(NameA, email), "first_name", name), d, d)
    \/ \E user_id \in Issued("user"), user_data \in NameInputs, d \in Still :
          UpdateUser(user_id, user_data, d)

SpecNames == Init /\ [][NextNames]_vars

\* --------------------------------------------------- the names of an Amenity
NameY == <<" ", "y", " ">>

\* names with and without spaces around them, names at and over the limit, a
\* name at the limit with a space before it, a blank
AmenityNameArgs ==
    {PyStr(NameW), PyStr(NameY), PyStr(NameOfLen(MaxAmenityNameLen)),
     PyStr(NameOfLen(MaxAmenityNameLen + 1)),
     PyStr(<<" ">> \o NameOfLen(MaxAmenityNameLen)), PyStr(<<" ">>)}

\* amenities created and renamed
NextAmenityNames ==
    \/ \E name \in AmenityNameArgs, d1 \in Ticks, d2 \in Ticks :
          CreateAmenity([name |-> name], d1, d2)
    \/ \E amenity_id \in Keys("amenity"), name \in AmenityNameArgs, d \in Ticks :
          UpdateAmenity(amenity_id, [name |-> name], d)

SpecAmenityNames == Init /\ [][NextAmenityNames]_vars

\* ----------------------------------------------------- the emails of a User
\* emails whose domain starts with a dot, ends with a dot, and an email with
\* a space in its local part
EmailDotFirst == <<"q", "@", ".", "x", ".", "x">>
EmailDotLast == <<"q", "@", "x", ".", "x", ".">>
EmailSpaced == <<"a", " ", "b", "@", "x", ".", "x">>
EmailNoDot == <<"q", "@", "x">>

EmailArgs ==
    {PyStr(EmailA), PyStr(EmailAShouted), PyStr(EmailDotFirst), PyStr(EmailDotLast),
     PyStr(EmailSpaced), PyStr(EmailNoDot)}

\* users created with those emails and updated to them
NextEmails ==
    \/ \E email \in EmailArgs, d \in Still :
          CreateUser(With(NewUser(NameA, EmailA), "email", email), d, d)
    \/ \E user_id \in Issued("user"), email \in EmailArgs, d \in Still :
          UpdateUser(user_id, [email |-> email], d)

SpecEmails == Init /\ [][NextEmails]_vars

\* ------------------------------------ references and fields, both at fault
\* the fields of a place: as they should be, a price of 0, a blank title, a
\* latitude of 91
PlaceFieldInputs ==
    {NoData, [price |-> PyInt(0)], [title |-> PyStr(<<" ">>)],
     [latitude |-> PyInt(MaxLatitude + 1)]}

\* the fields of a review: as they should be, a rating of 6, an empty text, a
\* rating that is a string
ReviewFieldInputs ==
    {NoData, [rating |-> PyInt(MaxRating + 1)], [text |-> PyStr(<<>>)],
     [rating |-> PyStr(TextG)]}

\* places and reviews created with every combination of a stored or absent
\* reference and well-formed or faulty fields
NextOrder ==
    \/ \E d \in Still : CreateUser(NewUser(NameA, EmailA), d, d)
    \/ \E owner_id \in Keys("user"), fields \in PlaceFieldInputs, d \in Still :
          CreatePlace(fields @@ NewPlace(owner_id), d, d)
    \/ \E user_id \in Keys("user"), place_id \in Keys("place"),
            fields \in ReviewFieldInputs, d \in Still :
          CreateReview(fields @@ NewReview(user_id, place_id), d, d)

SpecOrder == Init /\ [][NextOrder]_vars

\* ------------------------------------------- the amenities of a Place, replaced
\* the lists of one and of two ids a caller may give, repeats among them
AmenityLists ==
    {<<>>} \cup {<<a>> : a \in AmenityIds} \cup {<<a, b>> : a \in AmenityIds, b \in AmenityIds}

\* updates with a list of amenities, with amenities null, without amenities,
\* and updates that name amenity_ids next to amenities or alone
ReplaceInputs ==
    {[amenities |-> PyList(l)] : l \in AmenityLists}
        \cup {[amenities |-> PyNone], [title |-> PyStr(TitleU)],
              [amenities |-> PyList(<<NilUuid>>), amenity_ids |-> PyList(<<NilUuid, NilUuid>>)],
              [amenity_ids |-> PyList(<<NilUuid, NilUuid>>)]}

\* places whose amenities are given at creation and replaced by updates
NextReplace ==
    \/ \E d \in Still : CreateUser(NewUser(NameA, EmailA), d, d)
    \/ \E d \in Still : CreateAmenity(NewAmenity, d, d)
    \/ \E owner_id \in Issued("user"), a \in AmenityIds, d \in Still :
          CreatePlace(With(NewPlace(owner_id), "amenities", PyList(<<a>>)), d, d)
    \/ \E place_id \in Issued("place"), place_data \in ReplaceInputs, d \in Still :
          UpdatePlace(place_id, place_data, d)

SpecReplace == Init /\ [][NextReplace]_vars

\* ------------------------------- update_place, statement by statement
\* well-formed UUID strings that name no amenity
UuidA == 1
UuidB == 2
UuidC == 3

\* what the first and the second caller send
FirstCallInputs ==
    {[amenities |-> PyList(<<UuidA, UuidB>>)],
     [title |-> PyStr(TitleU), price |-> PyInt(2)]}
SecondCallInputs ==
    {[amenities |-> PyList(<<UuidC>>)],
     [title |-> PyStr(NameW), price |-> PyInt(3)],
     [title |-> PyStr(NameW), price |-> PyInt(-1)]}

\* the caller other than t
Other(t) == CHOOSE u \in Threads : u /= t

\* a statement of t's call has run: the other call is overlapped when it has
\* begun and not returned
Ran(t, call) ==
    [calls EXCEPT !.of[t] = call,
                  !.overlapped = @ \/ calls.of[Other(t)].pc \notin {"get", "done"}]

\* t's call returns or raises
Returned(t, out, msg) ==
    /\ calls' = Ran(t, [calls.of[t] EXCEPT !.pc = "done"])
    /\ last' = Called("update_place", calls.of[t].place_id, calls.of[t].data, out, msg)

\* two requests for the same place arrive; neither has run a statement
BeginCalls(place_id, first, second) ==
    /\ \A t \in Threads : calls.of[t].pc = "idle"
    /\ calls' = [origin |-> place_repo, overlapped |-> FALSE,
                 of |-> [t \in Threads |->
                           [NotCalled EXCEPT !.pc = "get", !.place_id = place_id,
                                             !.data = IF t = 1 THEN first ELSE second]]]
    /\ UNCHANGED <<repos, clock, issued, last>>

\* place = self.place_repo.get(place_id); if not place: return None
StepGet(t) ==
    /\ calls.of[t].pc = "get"
    /\ IF ~RepoHas(place_repo, calls.of[t].place_id)
       THEN Returned(t, "None", "")
       ELSE /\ calls' = Ran(t, [calls.of[t] EXCEPT !.pc = "amenities"])
            /\ UNCHANGED last
    /\ UNCHANGED <<repos, clock, issued>>

\* the list of amenities left as it is
KeptAmenityIds(place) == place

\* place.amenity_ids = []
ClearedAmenityIds(place) == [place EXCEPT !.amenity_ids = PyList(<<>>)]

\* the head of the amenities block, up to place.amenity_ids = []
StepAmenities(t) ==
    /\ calls.of[t].pc = "amenities"
    /\ LET call == calls.of[t]
           i == RepoIndex(place_repo, call.place_id)
           given == "amenities" \in DOMAIN call.data /\ call.data["amenities"] /= PyNone
       IN IF ~given
          THEN /\ calls' = Ran(t, [call EXCEPT !.pc = "validate"])
               /\ UNCHANGED <<place_repo, last>>
          ELSE IF ~IsList(call.data["amenities"])
          THEN /\ Returned(t, "TypeError", "amenities must be a list of UUID strings")
               /\ UNCHANGED place_repo
          ELSE /\ place_repo' = [place_repo EXCEPT ![i] = ClearedAmenityIds(@)]
               /\ calls' = Ran(t, [call EXCEPT
                                      !.rest = call.data["amenities"].l,
                                      !.pc = IF call.data["amenities"].l = <<>>
                                             THEN "validate" ELSE "add"])
               /\ UNCHANGED last
    /\ UNCHANGED <<user_repo, review_repo, amenity_repo, clock, issued>>

\* one turn of the loop: place.add_amenity_id(aid) on the stored place
StepAdd(t) ==
    /\ calls.of[t].pc = "add"
    /\ LET call == calls.of[t]
           i == RepoIndex(place_repo, call.place_id)
           r == AddAmenityId(place_repo[i].amenity_ids.l, Head(call.rest))
       IN IF r.out /= "ok"
          THEN Returned(t, r.out, r.msg) /\ UNCHANGED place_repo
          ELSE /\ place_repo' = [place_repo EXCEPT ![i].amenity_ids = PyList(r.val)]
               /\ calls' = Ran(t, [call EXCEPT
                                      !.rest = Tail(call.rest),
                                      !.pc = IF Tail(call.rest) = <<>>
                                             THEN "validate" ELSE "add"])
               /\ UNCHANGED last
    /\ UNCHANGED <<user_repo, review_repo, amenity_repo, clock, issued>>

\* clean_data and its checks; then BaseModel.update's loop has the keys of
\* clean_data that are attributes of the place and not protected to assign
StepValidate(t) ==
    /\ calls.of[t].pc = "validate"
    /\ LET call == calls.of[t]
           i == RepoIndex(place_repo, call.place_id)
           r == UpdatePlaceClean(call.data)
       IN IF r.out /= "ok"
          THEN Returned(t, r.out, r.msg)
          ELSE LET todo == (DOMAIN r.val \cap DOMAIN place_repo[i]) \ ProtectedFields
               IN /\ calls' = Ran(t, [call EXCEPT
                                         !.clean = r.val, !.todo = todo,
                                         !.pc = IF todo = {} THEN "save" ELSE "setattr"])
                  /\ UNCHANGED last
    /\ UNCHANGED <<repos, clock, issued>>

\* one turn of BaseModel.update's loop: setattr(self, key, value)
StepSetattr(t, key) ==
    /\ calls.of[t].pc = "setattr"
    /\ key \in calls.of[t].todo
    /\ LET call == calls.of[t]
           i == RepoIndex(place_repo, call.place_id)
       IN /\ place_repo' = [place_repo EXCEPT ![i][key] = call.clean[key]]
          /\ calls' = Ran(t, [call EXCEPT
                                 !.todo = @ \ {key},
                                 !.pc = IF call.todo = {key} THEN "save" ELSE "setattr"])
    /\ UNCHANGED <<user_repo, review_repo, amenity_repo, clock, issued, last>>

\* self.save(), and the return of the stored place
StepSave(t, d) ==
    /\ calls.of[t].pc = "save"
    /\ clock + d <= MaxClock
    /\ LET i == RepoIndex(place_repo, calls.of[t].place_id)
       IN place_repo' = [place_repo EXCEPT ![i] = BaseSave(@, clock + d)]
    /\ clock' = clock + d
    /\ Returned(t, "ok", "")
    /\ UNCHANGED <<user_repo, review_repo, amenity_repo, issued>>

\* two calls of update_place on one place, their statements in any order
NextRace ==
    \/ \E d \in Still : calls = NoCalls /\ CreateUser(NewUser(NameA, EmailA), d, d)
    \/ \E owner_id \in Issued("user"), d \in Still :
          calls = NoCalls /\ CreatePlace(NewPlace(owner_id), d, d)
    \/ \E place_id \in Keys("place"), first \in FirstCallInputs,
            second \in SecondCallInputs :
          BeginCalls(place_id, first, second)
    \/ \E t \in Threads : StepGet(t)
    \/ \E t \in Threads : StepAmenities(t)
    \/ \E t \in Threads : StepAdd(t)
    \/ \E t \in Threads : StepValidate(t)
    \/ \E t \in Threads, key \in {"title", "price"} : StepSetattr(t, key)
    \/ \E t \in Threads, d \in Still : StepSave(t, d)

SpecRace == Init /\ [][NextRace]_vars

\* ------------------------------------------------ updates that name an id
\* an update of each kind that passes its checks and names another id
KeyUpdateUserInputs == {[id |-> Nil, first_name |-> PyStr(NameA)]}
KeyUpdatePlaceInputs == {[id |-> Nil, title |-> PyStr(TitleT)]}
KeyUpdateReviewInputs == {[id |-> Nil, rating |-> PyInt(MaxRating)]}
KeyUpdateAmenityInputs == {[id |-> Nil, name |-> PyStr(NameW)]}

\* all nine operations of the facade, the updates naming an id
NextKeys ==
    \/ \E d \in Still : CreateUser(NewUser(NameA, EmailA), d, d)
    \/ \E user_id \in Issued("user"), user_data \in KeyUpdateUserInputs, d \in Still :
          UpdateUser(user_id, user_data, d)
    \/ \E owner_id \in Issued("user"), d \in Still : CreatePlace(NewPlace(owner_id), d, d)
    \/ \E place_id \in Issued("place"), place_data \in KeyUpdatePlaceInputs, d \in Still :
          UpdatePlace(place_id, place_data, d)
    \/ \E user_id \in Issued("user"), place_id \in Issued("place"), d \in Still :
          CreateReview(NewReview(user_id, place_id), d, d)
    \/ \E review_id \in Issued("review"), review_data \in KeyUpdateReviewInputs,
            d \in Still :
          UpdateReview(review_id, review_data, d)
    \/ \E review_id \in Issued("review") : DeleteReview(review_id)
    \/ \E d \in Still : CreateAmenity(NewAmenity, d, d)
    \/ \E amenity_id \in Issued("amenity"), amenity_data \in KeyUpdateAmenityInputs,
            d \in Still :
          UpdateAmenity(amenity_id, amenity_data, d)

SpecKeys == Init /\ [][NextKeys]_vars

\* ------------------------------------------------------------------- claims
Stored(repo) == {repo[i] : i \in 1..Len(repo)}

\* C1: every stored Review's user_id is the id of a stored User and its
\* place_id the id of a stored Place, and every stored Place's owner_id is the
\* id of a stored User, after any sequence of facade operations.
C1_ReferencesResolve ==
    /\ \A review \in Stored(review_repo) :
          RepoHas(user_repo, review.user_id) /\ RepoHas(place_repo, review.place_id)
    /\ \A place \in Stored(place_repo) : RepoHas(user_repo, place.owner_id)

\* an update of a stored review that named other references has succeeded
C1_Witness ==
    /\ last.op = "update_review" /\ last.out = "ok"
    /\ "user_id" \in DOMAIN last.data /\ "place_id" \in DOMAIN last.data
    /\ RepoHas(review_repo, last.id)
    /\ place_repo /= <<>>

\* C2: create_review with a user_id or place_id that is no key of its
\* repository, and create_place with an owner_id that is no key of the user
\* repository, raise the referential ValueError and leave the four
\* repositories as they were.
C2_AbsentReferenceRefused ==
    [][/\ (/\ last'.op = "create_review"
            /\ "user_id" \in DOMAIN last'.data
            /\ ~RepoHas(user_repo, last'.data["user_id"]))
           => (/\ last'.out = "ValueError" /\ last'.msg = "User not found"
               /\ repos' = repos)
       /\ (/\ last'.op = "create_review"
            /\ {"user_id", "place_id"} \subseteq DOMAIN last'.data
            /\ RepoHas(user_repo, last'.data["user_id"])
            /\ ~RepoHas(place_repo, last'.data["place_id"]))
           => (/\ last'.out = "ValueError" /\ last'.msg = "Place not found"
               /\ repos' = repos)
       /\ (/\ last'.op = "create_place"
            /\ "owner_id" \in DOMAIN last'.data
            /\ ~RepoHas(user_repo, last'.data["owner_id"]))
           => (/\ last'.out = "ValueError" /\ last'.msg = "Owner not found"
               /\ repos' = repos)]_vars

\* a review of an absent place by a stored user has been refused
C2_Witness ==
    /\ last.op = "create_review" /\ last.msg = "Place not found"
    /\ RepoHas(user_repo, last.data["user_id"])
    /\ ~RepoHas(place_repo, last.data["place_id"])

\* C8: update_user, update_place, update_review and update_amenity with an id
\* that is no key of their repository return None, whatever the payload, and
\* change no record of any repository.
C8_UpdateOfAbsentIdReturnsNone ==
    [][/\ (last'.op = "update_user" /\ ~RepoHas(user_repo, last'.id))
           => (last'.out = "None" /\ repos' = repos)
       /\ (last'.op = "update_place" /\ ~RepoHas(place_repo, last'.id))
           => (last'.out = "None" /\ repos' = repos)
       /\ (last'.op = "update_review" /\ ~RepoHas(review_repo, last'.id))
           => (last'.out = "None" /\ repos' = repos)
       /\ (last'.op = "update_amenity" /\ ~RepoHas(amenity_repo, last'.id))
           => (last'.out = "None" /\ repos' = repos)]_vars

\* an update of an absent amenity with a payload that has no name returned None
\* while an amenity is stored
C8_Witness ==
    /\ last.op = "update_amenity" /\ last.out = "None"
    /\ "name" \notin DOMAIN last.data
    /\ ~RepoHas(amenity_repo, last.id)
    /\ amenity_repo /= <<>>

\* C3: the facade enforces email uniqueness, so in every reachable state no
\* two stored Users have the same email.
C3_EmailsAreUnique ==
    \A i, j \in 1..Len(user_repo) :
        user_repo[i].email = user_repo[j].email => i = j

\* C6: update_user of a stored User leaves the User stored under the id it was
\* given and leaves its id, created_at, is_admin, place_ids and review_ids as
\* they were, whatever the payload; is_admin is false for every stored User.
C6_UpdateUserKeepsIdentity ==
    [][/\ (last'.op = "update_user" /\ RepoHas(user_repo, last'.id))
           => /\ RepoHas(user_repo', last'.id)
              /\ Len(user_repo') = Len(user_repo)
              /\ \A k \in {"id", "created_at", "is_admin", "place_ids", "review_ids"} :
                    RepoGet(user_repo', last'.id)[k] = RepoGet(user_repo, last'.id)[k]
       /\ \A user \in Stored(user_repo') : user.is_admin = PyBool(FALSE)]_vars

\* an update that named is_admin together with another first name has been
\* applied to a stored user
C6_Witness ==
    /\ last.op = "update_user" /\ last.out = "ok"
    /\ "is_admin" \in DOMAIN last.data
    /\ RepoHas(user_repo, last.id)
    /\ RepoGet(user_repo, last.id).first_name = PyStr(<<"b">>)

\* the ids in a stored list of ids
ListedIn(ids) == {ids.l[i] : i \in 1..Len(ids.l)}

\* C4: every id that create_place or update_place puts into a Place's
\* amenity_ids is, when it is added, the id of a stored Amenity.
C4_AddedAmenitiesAreStored ==
    [][last'.op \in {"create_place", "update_place"}
         => \A i \in 1..Len(place_repo') :
               LET before == IF i <= Len(place_repo)
                             THEN ListedIn(place_repo[i].amenity_ids) ELSE {}
               IN ListedIn(place_repo'[i].amenity_ids) \ before
                     \subseteq RepoIds(amenity_repo)]_vars

\* C5: update_place of a stored Place leaves its owner_id as it was, whatever
\* the payload, and a call that succeeds has stored the title and the price
\* the payload gave.
C5_UpdatePlaceKeepsOwner ==
    [][(last'.op = "update_place" /\ RepoHas(place_repo, last'.id))
         => /\ RepoHas(place_repo', last'.id)
            /\ RepoGet(place_repo', last'.id).owner_id
                  = RepoGet(place_repo, last'.id).owner_id
            /\ (last'.out = "ok" /\ "title" \in DOMAIN last'.data)
                  => RepoGet(place_repo', last'.id).title
                        = PyStr(Strip(Chars(last'.data["title"])))
            /\ (last'.out = "ok" /\ "price" \in DOMAIN last'.data)
                  => RepoGet(place_repo', last'.id).price
                        = ToFloat(last'.data["price"])]_vars

\* an update that named another owner than the place's, with a new title, has
\* been applied
C5_Witness ==
    /\ last.op = "update_place" /\ last.out = "ok"
    /\ {"owner_id", "title"} \subseteq DOMAIN last.data
    /\ RepoHas(place_repo, last.id)
    /\ last.data["owner_id"] /= RepoGet(place_repo, last.id).owner_id
    /\ RepoGet(place_repo, last.id).title = PyStr(<<"u">>)

\* C7: update_place with a payload that has the key review_ids or amenity_ids
\* leaves the Place's review_ids as they were, and its amenity_ids too unless
\* the payload has the key amenities.
C7_IdListsAreServerMaintained ==
    [][(/\ last'.op = "update_place"
        /\ RepoHas(place_repo, last'.id)
        /\ DOMAIN last'.data \cap {"review_ids", "amenity_ids"} /= {})
         => /\ RepoGet(place_repo', last'.id).review_ids
                  = RepoGet(place_repo, last'.id).review_ids
            /\ "amenities" \notin DOMAIN last'.data
                  => RepoGet(place_repo', last'.id).amenity_ids
                        = RepoGet(place_repo, last'.id).amenity_ids]_vars

\* C9: update_review of a stored review with a payload whose text and rating,
\* where given, pass their checks returns the review, with the given fields
\* overwritten and updated_at read from the clock.
C9_UpdateReviewIsPartial ==
    [][(/\ last'.op = "update_review"
        /\ RepoHas(review_repo, last'.id)
        /\ DOMAIN last'.data \cap {"text", "rating"} /= {}
        /\ "text" \in DOMAIN last'.data
              => IsStr(last'.data["text"]) /\ Strip(Chars(last'.data["text"])) /= <<>>
        /\ "rating" \in DOMAIN last'.data
              => /\ last'.data["rating"].t = "int"
                 /\ last'.data["rating"].n \in MinRating..MaxRating)
         => /\ last'.out = "ok"
            /\ RepoHas(review_repo', last'.id)
            /\ "text" \in DOMAIN last'.data
                  => RepoGet(review_repo', last'.id).text
                        = PyStr(Strip(Chars(last'.data["text"])))
            /\ "rating" \in DOMAIN last'.data
                  => RepoGet(review_repo', last'.id).rating = last'.data["rating"]
            /\ RepoGet(review_repo', last'.id).updated_at = clock']_vars

\* C10: an update_place that raises leaves the stored Place's title,
\* description, price, latitude, longitude, amenity_ids and updated_at as they
\* were.
C10_FailedUpdatePlaceAppliesNothing ==
    [][(/\ last'.op = "update_place"
        /\ RepoHas(place_repo, last'.id)
        /\ last'.out \in {"TypeError", "ValueError"})
         => \A k \in {"title", "description", "price", "latitude", "longitude",
                      "amenity_ids", "updated_at"} :
               RepoGet(place_repo', last'.id)[k] = RepoGet(place_repo, last'.id)[k]]_vars

\* C11: delete_review returns True exactly when the id is a key of the review
\* repository, and the review is then no longer stored; otherwise it returns
\* None and the review repository is as it was.
C11_DeleteReviewOutcome ==
    [][last'.op = "delete_review"
         => IF RepoHas(review_repo, last'.id)
            THEN last'.out = "ok" /\ ~RepoHas(review_repo', last'.id)
            ELSE last'.out = "None" /\ review_repo' = review_repo]_vars

\* a second delete_review of a review that was stored and deleted returned None
C11_Witness ==
    /\ last.op = "delete_review" /\ last.out = "None"
    /\ last.id \in Issued("review")

\* the ids of the reviews in a list of reviews
IdsOf(reviews) == {reviews[i].id : i \in 1..Len(reviews)}

\* C12: get_reviews_by_place(p) lists stored reviews whose place_id is p, and
\* only those; a review enters the list of its place at its create_review,
\* leaves it at its delete_review, and no other call changes any list.
C12_ReviewsByPlaceIsTheFilter ==
    [][\A p \in Keys("place") :
          LET created == IF /\ last'.op = "create_review" /\ last'.out = "ok"
                            /\ last'.data["place_id"] = p
                         THEN {last'.id.n} ELSE {}
              deleted == IF last'.op = "delete_review" /\ last'.out = "ok"
                         THEN {last'.id.n} ELSE {}
          IN /\ IdsOf(GetReviewsByPlace(p)')
                   = (IdsOf(GetReviewsByPlace(p)) \cup created) \ deleted
             /\ \A i \in 1..Len(GetReviewsByPlace(p)') :
                   /\ GetReviewsByPlace(p)'[i].place_id = p
                   /\ GetReviewsByPlace(p)'[i] \in Stored(review_repo')]_vars

\* an update that named another place has been applied to a review, which its
\* own place still lists while the place named lists nothing
C12_Witness ==
    /\ last.op = "update_review" /\ last.out = "ok"
    /\ "place_id" \in DOMAIN last.data
    /\ GetReviewsByPlace(last.data["place_id"]) = <<>>
    /\ \E p \in Issued("place") : last.id.n \in IdsOf(GetReviewsByPlace(p))

\* C13: delete_review leaves the user, place and amenity repositories and
\* every other review as they were, the review_ids lists of users and places
\* included.
C13_DeleteReviewRemovesOnlyTheReview ==
    [][last'.op = "delete_review"
         => /\ user_repo' = user_repo
            /\ place_repo' = place_repo
            /\ amenity_repo' = amenity_repo
            /\ Stored(review_repo') \subseteq Stored(review_repo)
            /\ \A review \in Stored(review_repo) :
                  review.id /= last'.id.n => review \in Stored(review_repo')]_vars

\* a review has been deleted and a place still lists its id
C13_Witness ==
    /\ last.op = "delete_review" /\ last.out = "ok"
    /\ \E place \in Stored(place_repo) : last.id.n \in ListedIn(place.review_ids)

\* C14: after add(e), get(e.id) returns e; a stored id keeps its object, and
\* an absent id stays absent, through every call that is not an add, an update
\* or a delete of that id; a second add of an id replaces the object, delete
\* makes the id absent, and get returns the stored object or None.
C14_RepositoryRoundTrip ==
    [][/\ last'.op = "add"
           => /\ RepoHas(amenity_repo', last'.id)
              /\ RepoGet(amenity_repo', last'.id) = last'.data
       /\ last'.op = "delete" => ~RepoHas(amenity_repo', last'.id)
       /\ last'.op = "update"
           => (RepoHas(amenity_repo', last'.id) <=> RepoHas(amenity_repo, last'.id))
       /\ last'.op = "get"
           => IF RepoHas(amenity_repo, last'.id)
              THEN last'.out = "ok" /\ last'.data = RepoGet(amenity_repo, last'.id)
              ELSE last'.out = "None"
       /\ \A key \in ObjKeys :
             (last'.op \in {"add", "update", "delete"} => last'.id /= key)
                => /\ RepoHas(amenity_repo', key) <=> RepoHas(amenity_repo, key)
                   /\ RepoHas(amenity_repo, key)
                         => RepoGet(amenity_repo', key) = RepoGet(amenity_repo, key)]_vars

\* an object has been added again under the id that was stored first, and
\* stands where the first one stood
C14_Witness ==
    /\ last.op = "add"
    /\ Len(amenity_repo) >= 2
    /\ amenity_repo[1] = last.data

\* C15: update and delete with an id that is not stored return without
\* raising and leave the storage, every record's updated_at included, as it was.
C15_AbsentIdIsANoOp ==
    [][(last'.op \in {"update", "delete"} /\ ~RepoHas(amenity_repo, last'.id))
         => last'.out = "ok" /\ amenity_repo' = amenity_repo /\ clock' = clock]_vars

\* an update has named an id that is not stored while another object is stored
C15_Witness ==
    /\ last.op = "update"
    /\ ~RepoHas(amenity_repo, last.id)
    /\ amenity_repo /= <<>>

\* C16: add_amenity_id and add_review_id with a valid id leave the list with
\* that id exactly once and with the ids it had, in their places: the id is
\* appended when it is new and the list is as it was when it is not; the other
\* list, and both lists when the id is refused, are as they were.
C16_AddIdIsIdempotent ==
    [][(last'.op \in {"add_amenity_id", "add_review_id"})
         => LET key == IF last'.op = "add_amenity_id" THEN "amenity_ids" ELSE "review_ids"
                other == IF last'.op = "add_amenity_id" THEN "review_ids" ELSE "amenity_ids"
                e == IF last'.op = "add_amenity_id" THEN last'.data["amenity_id"]
                     ELSE last'.data["review_id"]
                before == RepoGet(place_repo, last'.id)
                after == RepoGet(place_repo', last'.id)
            IN /\ after[other] = before[other]
               /\ IF last'.out = "ok"
                  THEN /\ Count(after[key].l, e) = 1
                       /\ SubSeq(after[key].l, 1, Len(before[key].l)) = before[key].l
                       /\ Len(after[key].l)
                             = Len(before[key].l) + (IF Count(before[key].l, e) = 0 THEN 1 ELSE 0)
                  ELSE after[key] = before[key]]_vars

\* add_amenity_id has been called again with the id added first, after another
\* id was added
C16_Witness ==
    /\ last.op = "add_amenity_id" /\ last.out = "ok"
    /\ RepoHas(place_repo, last.id)
    /\ Len(RepoGet(place_repo, last.id).amenity_ids.l) = 2
    /\ RepoGet(place_repo, last.id).amenity_ids.l[1] = last.data["amenity_id"]

\* C17: no stored Place's amenity_ids contains an id twice.
C17_AmenityIdsAreDistinct ==
    \A place \in Stored(place_repo) :
        \A i, j \in 1..Len(place.amenity_ids.l) :
            place.amenity_ids.l[i] = place.amenity_ids.l[j] => i = j

\* C18: a User just constructed has created_at equal to updated_at, however
\* the clock moves during construction, and no call changes a stored User's
\* created_at.
C18_TimestampsEqualAtConstruction ==
    [][/\ (last'.op = "create_user" /\ last'.out = "ok")
           => RepoGet(user_repo', last'.id).created_at
                 = RepoGet(user_repo', last'.id).updated_at
       /\ \A user \in Stored(user_repo) :
             /\ RepoHas(user_repo', PyUuid(user.id))
             /\ RepoGet(user_repo', PyUuid(user.id)).created_at = user.created_at]_vars

\* an update op of a stored record, with a payload that has none of the keys
\* in applied, returns the record with every field but updated_at as it was
\* and updated_at greater than it was
TouchesOnly(op, before, after, applied) ==
    (/\ last'.op = op
     /\ RepoHas(before, last'.id)
     /\ DOMAIN last'.data \cap applied = {})
       => /\ last'.out = "ok"
          /\ RepoHas(after, last'.id)
          /\ \A k \in DOMAIN RepoGet(before, last'.id) \ {"updated_at"} :
                RepoGet(after, last'.id)[k] = RepoGet(before, last'.id)[k]
          /\ RepoGet(after, last'.id).updated_at > RepoGet(before, last'.id).updated_at

\* C19: for each kind, the facade update of a stored record with a payload
\* whose keys are all forbidden or unknown, the empty payload included, leaves
\* every field as it was except updated_at, which becomes strictly greater.
C19_EmptyUpdateOnlyTouches ==
    [][/\ TouchesOnly("update_user", user_repo, user_repo',
                      {"first_name", "last_name", "email", "password"})
       /\ TouchesOnly("update_place", place_repo, place_repo',
                      {"title", "description", "price", "latitude", "longitude",
                       "amenities", "amenity_ids", "review_ids"})
       /\ TouchesOnly("update_review", review_repo, review_repo', {"text", "rating"})
       /\ TouchesOnly("update_amenity", amenity_repo, amenity_repo', {"name"})]_vars

\* C20: create_review with stored references and update_review of a stored
\* review, given an integer rating, store it when it is in 1..5 and otherwise
\* raise ValueError and leave the review repository as it was; every stored
\* rating is in 1..5.
C20_RatingWithinOneToFive ==
    [][/\ (/\ last'.op = "create_review"
           /\ RepoHas(user_repo, last'.data["user_id"])
           /\ RepoHas(place_repo, last'.data["place_id"])
           /\ last'.data["rating"].t = "int")
           => IF last'.data["rating"].n \in 1..5
              THEN /\ last'.out = "ok"
                   /\ RepoHas(review_repo', last'.id)
                   /\ RepoGet(review_repo', last'.id).rating = last'.data["rating"]
              ELSE last'.out = "ValueError" /\ review_repo' = review_repo
       /\ (/\ last'.op = "update_review"
           /\ RepoHas(review_repo, last'.id)
           /\ "rating" \in DOMAIN last'.data
           /\ last'.data["rating"].t = "int")
           => IF last'.data["rating"].n \in 1..5
              THEN /\ last'.out = "ok"
                   /\ RepoGet(review_repo', last'.id).rating = last'.data["rating"]
              ELSE last'.out = "ValueError" /\ review_repo' = review_repo
       /\ \A review \in Stored(review_repo') : review.rating.n \in 1..5]_vars

\* an update to 6 of a review whose rating is 1 has been refused
C20_Witness ==
    /\ last.op = "update_review" /\ last.out = "ValueError"
    /\ last.data["rating"] = PyInt(6)
    /\ RepoHas(review_repo, last.id)
    /\ RepoGet(review_repo, last.id).rating = PyInt(1)

\* C21: create_review and update_review given a rating that is a bool raise
\* TypeError and leave the review repository as it was, and no stored review
\* has a bool as its rating.
C21_BoolRatingRefused ==
    [][/\ (/\ last'.op = "create_review"
           /\ RepoHas(user_repo, last'.data["user_id"])
           /\ RepoHas(place_repo, last'.data["place_id"])
           /\ last'.data["rating"].t = "bool")
           => last'.out = "TypeError" /\ review_repo' = review_repo
       /\ (/\ last'.op = "update_review"
           /\ RepoHas(review_repo, last'.id)
           /\ "rating" \in DOMAIN last'.data
           /\ last'.data["rating"].t = "bool")
           => last'.out = "TypeError" /\ review_repo' = review_repo
       /\ \A review \in Stored(review_repo') : review.rating.t /= "bool"]_vars

\* the number a payload gives for a field of a place, with the default of
\* Place.__init__ when it gives none
Given(data, key) == IF key \in DOMAIN data THEN data[key] ELSE PyInt(0)

\* price > 0, -90 <= latitude <= 90 and -180 <= longitude <= 180
PriceInBounds(v) == v.t \in {"int", "float"} /\ ~IsNaN(v) /\ v.n > 0
LatitudeInBounds(v) ==
    v.t \in {"int", "float"} /\ ~IsNaN(v) /\ v.n >= -90 /\ v.n <= 90
LongitudeInBounds(v) ==
    v.t \in {"int", "float"} /\ ~IsNaN(v) /\ v.n >= -180 /\ v.n <= 180

\* C22: create_place with a stored owner and update_place of a stored place,
\* given numbers for price, latitude and longitude, succeed exactly when
\* price > 0, -90 <= latitude <= 90 and -180 <= longitude <= 180 and raise
\* ValueError otherwise; every stored place has its three numbers within
\* those bounds.
C22_PlaceNumbersWithinBounds ==
    [][/\ (/\ last'.op = "create_place"
           /\ RepoHas(user_repo, last'.data["owner_id"]))
           => IF /\ PriceInBounds(Given(last'.data, "price"))
                 /\ LatitudeInBounds(Given(last'.data, "latitude"))
                 /\ LongitudeInBounds(Given(last'.data, "longitude"))
              THEN last'.out = "ok"
              ELSE last'.out = "ValueError" /\ place_repo' = place_repo
       /\ (/\ last'.op = "update_place"
           /\ RepoHas(place_repo, last'.id))
           => IF /\ "price" \in DOMAIN last'.data
                    => PriceInBounds(last'.data["price"])
                 /\ "latitude" \in DOMAIN last'.data
                    => LatitudeInBounds(last'.data["latitude"])
                 /\ "longitude" \in DOMAIN last'.data
                    => LongitudeInBounds(last'.data["longitude"])
              THEN last'.out = "ok"
              ELSE last'.out = "ValueError" /\ place_repo' = place_repo
       /\ \A place \in Stored(place_repo') :
             /\ PriceInBounds(place.price)
             /\ LatitudeInBounds(place.latitude)
             /\ LongitudeInBounds(place.longitude)]_vars

\* a stored name: a string, trimmed, non-empty, at most 50 characters
NameWellFormed(v) ==
    /\ v.t = "str"
    /\ v.s /= <<>>
    /\ Strip(v.s) = v.s
    /\ Len(v.s) <= 50

\* C23: every stored user's first_name and last_name are trimmed, non-empty
\* and at most 50 characters long, and update_user of a stored user with a
\* name of 51 characters raises ValueError and leaves the user repository as
\* it was.
C23_NamesStayWellFormed ==
    [][/\ \A user \in Stored(user_repo') :
             NameWellFormed(user.first_name) /\ NameWellFormed(user.last_name)
       /\ (/\ last'.op = "update_user"
           /\ RepoHas(user_repo, last'.id)
           /\ \E key \in {"first_name", "last_name"} :
                 /\ key \in DOMAIN last'.data
                 /\ last'.data[key].t = "str"
                 /\ Len(Strip(last'.data[key].s)) > 50)
           => last'.out = "ValueError" /\ user_repo' = user_repo]_vars

\* C24: every stored amenity's name is a non-empty string without leading or
\* trailing whitespace and of at most 50 characters, and a successful
\* update_amenity stores the name it was given in its trimmed form.
C24_AmenityNamesStayTrimmed ==
    [][/\ \A amenity \in Stored(amenity_repo') :
             /\ amenity.name.t = "str"
             /\ amenity.name.s /= <<>>
             /\ Strip(amenity.name.s) = amenity.name.s
             /\ Len(amenity.name.s) <= 50
       /\ (last'.op = "update_amenity" /\ last'.out = "ok")
           => RepoGet(amenity_repo', last'.id).name
                 = PyStr(Strip(last'.data["name"].s))]_vars

\* C25: update_user of a stored user with a string as email succeeds exactly
\* when User construction accepts that email, then stores the value that
\* construction would store, and otherwise raises ValueError and leaves the
\* user repository as it was.
C25_UpdateUserEmailAsConstruction ==
    [][(/\ last'.op = "update_user"
        /\ RepoHas(user_repo, last'.id)
        /\ DOMAIN last'.data = {"email"}
        /\ last'.data["email"].t = "str")
        => LET v == ValidateEmail(last'.data["email"].s)
           IN IF v.out = "ok"
              THEN /\ last'.out = "ok"
                   /\ RepoGet(user_repo', last'.id).email = v.val
              ELSE last'.out = "ValueError" /\ user_repo' = user_repo]_vars

\* the errors of the referential checks
NotFound == {"User not found", "Place not found", "Owner not found"}

\* C26: create_review naming an absent user or place, and create_place naming
\* an absent owner, raise the referential error and store nothing, whatever
\* the other fields are; an error of a field is raised only when every id the
\* payload names is stored.
C26_ReferencesCheckedFirst ==
    [][/\ last'.op = "create_review"
          => /\ ~RepoHas(user_repo, last'.data["user_id"])
                => /\ last'.out = "ValueError" /\ last'.msg = "User not found"
                   /\ review_repo' = review_repo
             /\ (/\ RepoHas(user_repo, last'.data["user_id"])
                 /\ ~RepoHas(place_repo, last'.data["place_id"]))
                => /\ last'.out = "ValueError" /\ last'.msg = "Place not found"
                   /\ review_repo' = review_repo
             /\ (last'.out /= "ok" /\ last'.msg \notin NotFound)
                => /\ RepoHas(user_repo, last'.data["user_id"])
                   /\ RepoHas(place_repo, last'.data["place_id"])
       /\ last'.op = "create_place"
          => /\ ~RepoHas(user_repo, last'.data["owner_id"])
                => /\ last'.out = "ValueError" /\ last'.msg = "Owner not found"
                   /\ place_repo' = place_repo
             /\ (last'.out /= "ok" /\ last'.msg \notin NotFound)
                => RepoHas(user_repo, last'.data["owner_id"])]_vars

\* a review with a rating of 6 for a stored user and an absent place has been
\* refused
C26_Witness ==
    /\ last.op = "create_review"
    /\ last.msg = "Place not found"
    /\ last.data["rating"] = PyInt(6)
    /\ RepoHas(user_repo, last.data["user_id"])
    /\ review_repo = <<>>

\* a list without its repeats, in the order of first occurrence
FirstOccurrences(l) ==
    LET keep == {i \in 1..Len(l) : \A j \in 1..(i - 1) : l[j] /= l[i]}
        place(i) == Cardinality({j \in keep : j <= i})
    IN [k \in 1..Cardinality(keep) |-> l[CHOOSE i \in keep : place(i) = k]]

\* C27: after a successful update_place of a stored place, the place's
\* amenity_ids is the list given as amenities without its repeats, in the
\* order of first occurrence, and holds no id of the list before that the
\* payload does not give; when the payload has no amenities, or has amenities
\* null, amenity_ids is what it was.
C27_AmenitiesReplacedWholesale ==
    [][(/\ last'.op = "update_place"
        /\ last'.out = "ok"
        /\ RepoHas(place_repo, last'.id))
        => LET before == RepoGet(place_repo, last'.id).amenity_ids
               after == RepoGet(place_repo', last'.id).amenity_ids
           IN IF /\ "amenities" \in DOMAIN last'.data
                 /\ last'.data["amenities"] /= PyNone
              THEN /\ after = PyList(FirstOccurrences(last'.data["amenities"].l))
                   /\ \A i \in 1..Len(before.l) :
                         InList(after.l, before.l[i])
                            => InList(last'.data["amenities"].l, before.l[i])
              ELSE after = before]_vars

\* the place repository after one whole call of update_place
AfterUpdatePlace(repo, place_id, place_data, now) ==
    IF ~RepoHas(repo, place_id) THEN repo
    ELSE LET i == RepoIndex(repo, place_id)
             given == /\ "amenities" \in DOMAIN place_data
                      /\ place_data["amenities"] /= PyNone
         IN IF given /\ ~IsList(place_data["amenities"]) THEN repo
            ELSE LET a == IF given
                          THEN UpdatePlaceAmenities(<<>>, place_data["amenities"].l)
                          ELSE Ok(<<>>)
                     assigned == IF given
                                 THEN [repo EXCEPT ![i].amenity_ids = PyList(a.val)]
                                 ELSE repo
                     r == IF a.out /= "ok" THEN a ELSE UpdatePlaceClean(place_data)
                 IN IF r.out = "ok" THEN RepoUpdate(assigned, place_id, r.val, now)
                    ELSE assigned

\* the place repositories the two serial orders of the two calls leave
SerialResults ==
    LET place_id == calls.of[1].place_id
        first == calls.of[1].data
        second == calls.of[2].data
    IN {AfterUpdatePlace(AfterUpdatePlace(calls.origin, place_id, first, clock),
                         place_id, second, clock),
        AfterUpdatePlace(AfterUpdatePlace(calls.origin, place_id, second, clock),
                         place_id, first, clock)}

BothReturned == \A t \in Threads : calls.of[t].pc = "done"

\* C28: when two calls of update_place on one place have both returned and
\* no statement of one ran between two statements of the other, the place
\* repository is what one of the two serial orders of the calls leaves;
\* without that, their statements interleaved, it can be what neither order
\* leaves.
C28_SerializedCallsGiveASerialResult ==
    (BothReturned /\ ~calls.overlapped) => place_repo \in SerialResults

\* two interleaved calls have returned and left a list of amenities that
\* holds an id of each payload, which neither serial order leaves
C28_Witness ==
    /\ BothReturned
    /\ calls.overlapped
    /\ place_repo \notin SerialResults
    /\ \E i \in 1..Len(place_repo) :
          /\ InList(place_repo[i].amenity_ids.l, UuidB)
          /\ InList(place_repo[i].amenity_ids.l, UuidC)

\* the ids of the records of a repository, slot by slot
SlotIds(repo) == [i \in 1..Len(repo) |-> repo[i].id]

\* every record is found under its own id and listed once
KeyedById(repo) ==
    /\ \A i, j \in 1..Len(repo) : repo[i].id = repo[j].id => i = j
    /\ \A k \in RepoIds(repo) : RepoGet(repo, PyUuid(k)).id = k
    /\ Len(RepoGetAll(repo)) = Cardinality(RepoIds(repo))

\* C29: in each repository every record is stored under its own id, so that
\* get(id) returns the record with that id and get_all lists no record twice,
\* and no update changes the id of a stored record, also when the payload
\* names an id.
C29_StoredUnderOwnId ==
    [][/\ KeyedById(user_repo') /\ KeyedById(place_repo')
       /\ KeyedById(review_repo') /\ KeyedById(amenity_repo')
       /\ last'.op \in {"update_user", "update_place", "update_review", "update_amenity"}
          => /\ SlotIds(user_repo') = SlotIds(user_repo)
             /\ SlotIds(place_repo') = SlotIds(place_repo)
             /\ SlotIds(review_repo') = SlotIds(review_repo)
             /\ SlotIds(amenity_repo') = SlotIds(amenity_repo)]_vars

\* an update of a place that names the nil UUID as id has succeeded and the
\* second of two users is still found under its id
C29_Witness ==
    /\ last.op = "update_place" /\ last.out = "ok"
    /\ last.data["id"] = Nil
    /\ RepoHas(place_repo, last.id)
    /\ Len(user_repo) = 2
    /\ RepoGet(user_repo, PyUuid(102)).id = 102

\* C30: a successful create_review leaves the user, place and amenity
\* repositories as they were, so that the new review, which
\* get_reviews_by_place returns for its place, is in the review_ids of no
\* place and of no user; a successful create_place leaves the user, review and
\* amenity repositories and every other place as they were.
C30_CreateTouchesNoOtherRecord ==
    [][/\ (last'.op = "create_review" /\ last'.out = "ok")
           => /\ user_repo' = user_repo
              /\ place_repo' = place_repo
              /\ amenity_repo' = amenity_repo
              /\ \A p \in Keys("place") :
                    p = last'.data["place_id"]
                       => last'.id.n \in IdsOf(GetReviewsByPlace(p)')
              /\ \A place \in Stored(place_repo') :
                    last'.id.n \notin ListedIn(place.review_ids)
              /\ \A user \in Stored(user_repo') :
                    last'.id.n \notin ListedIn(user.review_ids)
       /\ (last'.op = "create_place" /\ last'.out = "ok")
           => /\ user_repo' = user_repo
              /\ review_repo' = review_repo
              /\ amenity_repo' = amenity_repo
              /\ Stored(place_repo) \subseteq Stored(place_repo')
              /\ \A user \in Stored(user_repo') :
                    last'.id.n \notin ListedIn(user.place_ids)]_vars

\* a review has been created for a place whose review_ids lists something
\* else, and get_reviews_by_place returns it for that place
C30_Witness ==
    /\ last.op = "create_review" /\ last.out = "ok"
    /\ RepoGet(place_repo, last.data["place_id"]).review_ids.l /= <<>>
    /\ last.id.n \in IdsOf(GetReviewsByPlace(last.data["place_id"]))
    /\ last.id.n \notin ListedIn(RepoGet(place_repo, last.data["place_id"]).review_ids)

====
